---- MODULE Spec2Model ----
(***************************************************************************)
(* Model of the dynupdate record store (store.go): the in-memory index    *)
(* guarded by mu, the backing file written under persistMu, the           *)
(* generation / persisted counters and the auto-reload goroutine.         *)
(*                                                                         *)
(* Granularity: every critical section of mu is one step, except where    *)
(* the code touches the file system while holding mu (os.Stat in          *)
(* persistSnapshot and in loadFromBytes); there the step is split so that *)
(* the environment (external edits of the file, the clock) can interleave.*)
(* File-system calls made outside the locks are steps of their own.       *)
(***************************************************************************)
EXTENDS Integers, Sequences, FiniteSets, TLC

\* ---------------------------------------------------------------- bounds
\* generation is capped: no mutation call starts once it reached MaxGen
MaxGen == 2
\* the clock (file modification times) runs from 0 to MaxTime
MaxTime == 1
\* number of external edits (writes or removals) of the backing file
MaxExt == 2
\* number of failing file-system calls in persistSnapshot
MaxFail == 1

\* the goroutines that call the mutating operations
Procs == {"p1", "p2"}

\* ------------------------------------------------------------ sync policy
PolicySync == 0
PolicyCreateOnly == 1
PolicyUpdateOnly == 2
PolicyUpsertOnly == 3

\* ---------------------------------------------------------------- records
\* Record: the fields of the struct that the store reads (Name, Type, Value)
\* and one payload field (TTL) standing for the fields it only carries.
Rec(n, t, v, ttl) == [Name |-> n, Type |-> t, Value |-> v, TTL |-> ttl]

\* strings.ToLower on the names of the model
ToLower(s) ==
    IF s = "A.EX." THEN "a.ex." ELSE IF s = "B.EX." THEN "b.ex."
    ELSE IF s = "N0.EX." THEN "n0.ex." ELSE s

\* strings.EqualFold on the type names of the model
Fold(s) == IF s = "a" THEN "A" ELSE IF s = "cname" THEN "CNAME" ELSE s
EqualFold(s, t) == Fold(s) = Fold(t)

\* the keys of the index: lowercase names
Keys == {"a.ex.", "b.ex."}

\* records of the model: r1 and r2 have the same identity (name and type
\* differ only in case), r3 is another identity under the same name, r4 is
\* the record of an externally written file
r1 == Rec("a.ex.", "A", "10.0.0.1", 300)
r2 == Rec("A.EX.", "a", "10.0.0.1", 600)
r3 == Rec("a.ex.", "A", "10.0.0.2", 300)
r4 == Rec("b.ex.", "A", "10.0.0.9", 300)
\* a record of another type under the name and with the value of r1
r5 == Rec("a.ex.", "TXT", "10.0.0.1", 300)
\* records the concurrent Upsert calls carry: two identities under one name
\* (a repeated Upsert of one of them takes the update path)
UpsertInputs == {r1, r3}

\* ---------------------------------------------------------- pure helpers
RECURSIVE IndexOf(_, _, _, _)
\* applyUpsert's search loop: first position whose type and value match, 0 if none
IndexOf(recs, qtype, value, i) ==
    IF i > Len(recs) THEN 0
    ELSE IF EqualFold(recs[i].Type, qtype) /\ recs[i].Value = value THEN i
    ELSE IndexOf(recs, qtype, value, i + 1)

\* mutant: the collecting loop misses the first record
CollectLockedSkipsFirst(index) ==
    LET all == index["a.ex."] \o index["b.ex."]
    IN IF Len(all) > 0 THEN Tail(all) ELSE all

\* the flat slice of all records (the map is walked key by key; the order of
\* the keys is not significant, the order inside a key is kept)
CollectLocked(index) == index["a.ex."] \o index["b.ex."]

\* number of records in the index
CountLocked(index) == Len(index["a.ex."]) + Len(index["b.ex."])

\* loadFromBytes's grouping loop: records appended under their lowercase name
GroupByName(list) ==
    [k \in Keys |-> SelectSeq(list, LAMBDA r : ToLower(r.Name) = k)]

\* read operations of the store
Get(index, name, qtype) ==
    SelectSeq(index[ToLower(name)], LAMBDA r : EqualFold(r.Type, qtype))
GetAll(index, name) == index[ToLower(name)]
List(index) == CollectLocked(index)

\* the set of elements of a sequence
Range(s) == {s[i] : i \in 1..Len(s)}

\* ---------------------------------------------------------------- state
VARIABLES
    records,      \* Store.records: key -> sequence of records
    generation,   \* Store.generation
    persisted,    \* Store.persisted
    lastMod,      \* Store.lastMod
    syncPolicy,   \* Store.syncPolicy
    maxRecords,   \* Store.maxRecords
    mu,           \* holder of the write side of Store.mu, or "free"
    persistMu,    \* holder of Store.persistMu, or "free"
    file,         \* the backing file: exists, recs, ok (parses), mtime
    now,          \* the file system's clock
    mpc,          \* per caller: position in the mutating call
    msnap,        \* per caller: the snapshot returned by apply*
    mgen,         \* per caller: the generation returned by apply*
    mtmp,         \* per caller: modification time of its temporary file
    mret,         \* per caller: result of its last call
    mrec,         \* per caller: identity of the record its Upsert call carries, or <<>>
    rpc,          \* reload goroutine: position in checkReload
    rLastMod,     \* checkReload's local lastMod
    rInfo,        \* checkReload's local info.ModTime()
    rRaw,         \* checkReload's local raw
    extEdits,     \* history: number of external edits so far
    ioFails,      \* history: number of failed persist attempts so far
    failed,       \* history: generation and Upsert identity of the calls whose persist failed
    writtenGen,   \* history: generation of the last snapshot the store renamed onto the file
    upserted,     \* history: records applied by Upsert calls
    acked,        \* history: records whose Upsert returned nil
    deleted,      \* history: some delete form has been applied
    mutSinceRead, \* history: a mutation was applied after checkReload read the file
    pendingExt,   \* history: generation at an external write that was newer than lastMod, or -1
    skipped,      \* history: some persist attempt returned as stale
    handler,      \* DynUpdate: the zones it serves (Zones) and its fallthrough zones (Fall)
    dnsq,         \* the last query ServeDNS was given and what it did with it
    rcall         \* the last record-level call (Validate, or encode and load) and its result

storeVars == <<records, generation, persisted, lastMod, syncPolicy, maxRecords>>
lockVars == <<mu, persistMu>>
envVars == <<file, now>>
callVars == <<mpc, msnap, mgen, mtmp, mret, mrec>>
reloadVars == <<rpc, rLastMod, rInfo, rRaw>>
histVars == <<extEdits, ioFails, failed, writtenGen, upserted, acked, deleted, mutSinceRead, pendingExt, skipped>>
plugVars == <<handler, dnsq, rcall>>
vars == <<storeVars, lockVars, envVars, callVars, reloadVars, histVars, plugVars>>

NoFile == [exists |-> FALSE, recs |-> <<>>, ok |-> FALSE, mtime |-> 0]
FileOf(list, ok, mtime) == [exists |-> TRUE, recs |-> list, ok |-> ok, mtime |-> mtime]
NoRaw == [recs |-> <<>>, ok |-> FALSE]

\* mutant: the modification time of the file is never recorded
StatLastModKeepsOld(f, old) == old

\* os.Stat followed by "if err == nil { s.lastMod = info.ModTime() }"
StatLastMod(f, old) == IF f.exists THEN f.mtime ELSE old

\* contents the backing file may have when the store is constructed
InitFiles == {<<>>}

\* no query has been served, no record-level call has been made
NoQuery == [served |-> FALSE]
NoCall == [op |-> "none"]
\* the store on its own: no zone is served
NoHandler == [Zones |-> {}, Fall |-> {}]

\* no caller is active, the reload goroutine waits for its first tick
InitIdle ==
    /\ mu = "free"
    /\ persistMu = "free"
    /\ now = 0
    /\ mpc = [p \in Procs |-> "idle"]
    /\ msnap = [p \in Procs |-> <<>>]
    /\ mgen = [p \in Procs |-> 0]
    /\ mtmp = [p \in Procs |-> 0]
    /\ mret = [p \in Procs |-> "none"]
    /\ mrec = [p \in Procs |-> <<>>]
    /\ rpc = "idle"
    /\ rLastMod = 0
    /\ rInfo = 0
    /\ rRaw = NoRaw
    /\ extEdits = 0
    /\ ioFails = 0
    /\ failed = {}
    /\ writtenGen = 0
    /\ upserted = {}
    /\ acked = {}
    /\ deleted = FALSE
    /\ mutSinceRead = FALSE
    /\ pendingExt = -1
    /\ skipped = FALSE

\* NewStore: loadOrCreate has loaded the file (or created the empty file)
InitStoreFrom(files, policies, limits) ==
    /\ \E list \in files :
          /\ file = FileOf(list, TRUE, 0)
          /\ records = GroupByName(list)
    /\ generation = 0
    /\ persisted = 0
    /\ lastMod = 0
    /\ syncPolicy \in policies
    /\ maxRecords \in limits
    /\ InitIdle
    /\ handler = NoHandler
    /\ dnsq = NoQuery
    /\ rcall = NoCall

\* NewStore on a file the store itself creates
InitStore(policies, limits) == InitStoreFrom(InitFiles, policies, limits)

\* the store as the tests construct it: the default policy, no record limit
Init == InitStore({PolicySync}, {0})

\* ------------------------------------------------------- mutating calls
\* the identity of a record: lowercase name, case-folded type, value
Identity(r) == <<ToLower(r.Name), Fold(r.Type), r.Value>>
Identities(index) == {Identity(r) : r \in Range(CollectLocked(index))}

\* mutant: an insert overwrites the records already stored under the name
UpsertRecsOverwrites(recs, idx, r) ==
    IF idx > 0 THEN [recs EXCEPT ![idx] = r] ELSE <<r>>

\* applyUpsert's write: replace in place when found, append otherwise
UpsertRecs(recs, idx, r) ==
    IF idx > 0 THEN [recs EXCEPT ![idx] = r] ELSE Append(recs, r)

\* mutant: the limit is compared with > instead of >=
UpsertErrorOneOver(policy, found, count, max) ==
    IF policy = PolicyCreateOnly /\ found THEN "ErrPolicyDenied"
    ELSE IF policy = PolicyUpdateOnly /\ ~found THEN "ErrPolicyDenied"
    ELSE IF ~found /\ max > 0 /\ count > max THEN "ErrLimit"
    ELSE "nil"

\* mutant: the create-only and update-only cases of the switch are swapped
UpsertErrorSwapped(policy, found, count, max) ==
    IF policy = PolicyCreateOnly /\ ~found THEN "ErrPolicyDenied"
    ELSE IF policy = PolicyUpdateOnly /\ found THEN "ErrPolicyDenied"
    ELSE IF ~found /\ max > 0 /\ count >= max THEN "ErrLimit"
    ELSE "nil"

\* applyUpsert's policy switch and record limit: the error, or "nil"
UpsertError(policy, found, count, max) ==
    IF policy = PolicyCreateOnly /\ found THEN "ErrPolicyDenied"
    ELSE IF policy = PolicyUpdateOnly /\ ~found THEN "ErrPolicyDenied"
    ELSE IF ~found /\ max > 0 /\ count >= max THEN "ErrLimit"
    ELSE "nil"

\* the policy check of applyDelete, applyDeleteByType and applyDeleteAll
DeleteError(policy) == IF policy # PolicySync THEN "ErrPolicyDenied" ELSE "nil"

\* mutant: the filter compares the type only
DeleteRecsAnyValue(recs, qtype, value) ==
    SelectSeq(recs, LAMBDA r : ~EqualFold(r.Type, qtype))

\* applyDelete's filter loop
DeleteRecs(recs, qtype, value) ==
    SelectSeq(recs, LAMBDA r : ~(EqualFold(r.Type, qtype) /\ r.Value = value))

\* mutant: the types are compared with ==, case included
DeleteByTypeRecsExactCase(recs, qtype) ==
    SelectSeq(recs, LAMBDA r : r.Type # qtype)

\* applyDeleteByType's filter loop
DeleteByTypeRecs(recs, qtype) ==
    SelectSeq(recs, LAMBDA r : ~EqualFold(r.Type, qtype))

\* mutant: the generation is not incremented
NextGenerationSame(g) == g

\* s.generation++
NextGeneration(g) == g + 1

\* mutant: the generation is incremented before the checks, so a refused
\* call leaves it one higher
RejectAfterIncrement(p, err) ==
    /\ mret' = [mret EXCEPT ![p] = err]
    /\ generation' = generation + 1
    /\ UNCHANGED <<records, persisted, lastMod, syncPolicy, maxRecords, plugVars>>
    /\ UNCHANGED <<lockVars, envVars, reloadVars, histVars>>
    /\ UNCHANGED <<mpc, msnap, mgen, mtmp, mrec>>

\* an apply* call returns an error: nothing but the caller's result changes
Reject(p, err) ==
    /\ mret' = [mret EXCEPT ![p] = err]
    /\ UNCHANGED <<storeVars, lockVars, envVars, reloadVars, histVars, plugVars>>
    /\ UNCHANGED <<mpc, msnap, mgen, mtmp, mrec>>

\* mutant: apply* returns without releasing mu, so the caller goes on to
\* persistSnapshot holding it
CommitHoldingMu(p, index, id) ==
    /\ records' = index
    /\ generation' = NextGeneration(generation)
    /\ msnap' = [msnap EXCEPT ![p] = CollectLocked(index)]
    /\ mgen' = [mgen EXCEPT ![p] = NextGeneration(generation)]
    /\ mpc' = [mpc EXCEPT ![p] = "persist"]
    /\ mret' = [mret EXCEPT ![p] = "pending"]
    /\ mrec' = [mrec EXCEPT ![p] = id]
    /\ mutSinceRead' = (rpc = "phase3")
    /\ mu' = p
    /\ UNCHANGED <<persisted, lastMod, syncPolicy, maxRecords, persistMu, envVars, reloadVars, plugVars>>
    /\ UNCHANGED <<mtmp, extEdits, ioFails, failed, writtenGen, acked, pendingExt, skipped>>

\* the tail of every apply*: store the new index, bump the generation and
\* return the snapshot and the generation to the caller, which goes on to
\* persistSnapshot
Commit(p, index, id) ==
    /\ records' = index
    /\ generation' = NextGeneration(generation)
    /\ msnap' = [msnap EXCEPT ![p] = CollectLocked(index)]
    /\ mgen' = [mgen EXCEPT ![p] = NextGeneration(generation)]
    /\ mpc' = [mpc EXCEPT ![p] = "persist"]
    /\ mret' = [mret EXCEPT ![p] = "pending"]
    /\ mrec' = [mrec EXCEPT ![p] = id]
    /\ mutSinceRead' = (rpc = "phase3")
    /\ UNCHANGED <<persisted, lastMod, syncPolicy, maxRecords, lockVars, envVars, reloadVars, plugVars>>
    /\ UNCHANGED <<mtmp, extEdits, ioFails, failed, writtenGen, acked, pendingExt, skipped>>

\* a caller may enter apply*: it is idle and takes mu.Lock()
CanApply(p) ==
    /\ mpc[p] = "idle"
    /\ mu = "free"
    /\ generation < MaxGen

\* Upsert(r) up to the return of applyUpsert
Upsert(p, r) ==
    /\ CanApply(p)
    /\ LET key == ToLower(r.Name)
           recs == records[key]
           idx == IndexOf(recs, r.Type, r.Value, 1)
           err == UpsertError(syncPolicy, idx > 0, CountLocked(records), maxRecords)
       IN IF err # "nil"
          THEN Reject(p, err)
          ELSE /\ Commit(p, [records EXCEPT ![key] = UpsertRecs(recs, idx, r)], Identity(r))
               /\ upserted' = upserted \cup {Identity(r)}
               /\ UNCHANGED deleted

\* Delete(name, qtype, value) up to the return of applyDelete
Delete(p, name, qtype, value) ==
    /\ CanApply(p)
    /\ LET key == ToLower(name)
           err == DeleteError(syncPolicy)
       IN IF err # "nil"
          THEN Reject(p, err)
          ELSE /\ Commit(p, [records EXCEPT ![key] = DeleteRecs(records[key], qtype, value)], <<>>)
               /\ deleted' = TRUE
               /\ UNCHANGED upserted

\* DeleteByType(name, qtype) up to the return of applyDeleteByType
DeleteByType(p, name, qtype) ==
    /\ CanApply(p)
    /\ LET key == ToLower(name)
           err == DeleteError(syncPolicy)
       IN IF err # "nil"
          THEN Reject(p, err)
          ELSE /\ Commit(p, [records EXCEPT ![key] = DeleteByTypeRecs(records[key], qtype)], <<>>)
               /\ deleted' = TRUE
               /\ UNCHANGED upserted

\* DeleteAll(name) up to the return of applyDeleteAll
DeleteAll(p, name) ==
    /\ CanApply(p)
    /\ LET key == ToLower(name)
           err == DeleteError(syncPolicy)
       IN IF err # "nil"
          THEN Reject(p, err)
          ELSE /\ Commit(p, [records EXCEPT ![key] = <<>>], <<>>)
               /\ deleted' = TRUE
               /\ UNCHANGED upserted

\* ------------------------------------------------------- persistSnapshot
\* mutant: no persist attempt is ever treated as stale
IsStaleNever(gen, done) == FALSE

\* mutant: an attempt one generation ahead of persisted is skipped as well
IsStaleOneAhead(gen, done) == gen > 0 /\ gen <= done + 1

\* "if gen > 0 && gen <= s.persisted { return nil }"
IsStale(gen, done) == gen > 0 /\ gen <= done

\* mutant: persisted is set one past the generation written
PersistedValueOffByOne(gen) == gen + 1

\* the value persistSnapshot stores in s.persisted
PersistedValue(gen) == gen

\* the call returns to its caller with result err
Return(p, err) ==
    /\ mpc' = [mpc EXCEPT ![p] = "idle"]
    /\ mret' = [mret EXCEPT ![p] = err]
    /\ msnap' = [msnap EXCEPT ![p] = <<>>]
    /\ mgen' = [mgen EXCEPT ![p] = 0]
    /\ mtmp' = [mtmp EXCEPT ![p] = 0]
    /\ mrec' = [mrec EXCEPT ![p] = <<>>]
    /\ acked' = IF err = "nil" /\ mrec[p] # <<>> THEN acked \cup {mrec[p]} ELSE acked

\* mutant: the attempt takes mu along with persistMu and writes under both
PersistBeginHoldingMu(p) ==
    /\ mpc[p] = "persist"
    /\ persistMu = "free"
    /\ mu = "free"
    /\ IF IsStale(mgen[p], persisted)
       THEN /\ Return(p, "nil")
            /\ skipped' = TRUE
            /\ UNCHANGED <<persistMu, mu>>
       ELSE /\ persistMu' = p
            /\ mu' = p
            /\ mpc' = [mpc EXCEPT ![p] = "write"]
            /\ UNCHANGED <<msnap, mgen, mtmp, mret, mrec, acked, skipped>>
    /\ UNCHANGED <<storeVars, envVars, reloadVars, plugVars>>
    /\ UNCHANGED <<extEdits, ioFails, failed, writtenGen, upserted, deleted, mutSinceRead, pendingExt>>

\* persistMu.Lock() and the stale check: a stale attempt returns nil at
\* once (the deferred Unlock runs), any other goes on holding persistMu
PersistBegin(p) ==
    /\ mpc[p] = "persist"
    /\ persistMu = "free"
    /\ IF IsStale(mgen[p], persisted)
       THEN /\ Return(p, "nil")
            /\ skipped' = TRUE
            /\ UNCHANGED persistMu
       ELSE /\ persistMu' = p
            /\ mpc' = [mpc EXCEPT ![p] = "write"]
            /\ UNCHANGED <<msnap, mgen, mtmp, mret, mrec, acked, skipped>>
    /\ UNCHANGED <<storeVars, mu, envVars, reloadVars, plugVars>>
    /\ UNCHANGED <<extEdits, ioFails, failed, writtenGen, upserted, deleted, mutSinceRead, pendingExt>>

\* mutant: the snapshot is written in place, so the backing file is
\* truncated and holds a part of the snapshot until the write completes
WriteInPlace(f, t) == FileOf(<<>>, FALSE, t)

\* the backing file after CreateTemp(dir, ...) and tmp.Write(raw): the bytes
\* go to a new file in the same directory, the backing file is as it was
WriteTemp(f, t) == f

\* MarshalIndent, CreateTemp, Write and Close succeed: the temporary file
\* holds the snapshot and carries the time of the write
PersistWrite(p) ==
    /\ mpc[p] = "write"
    /\ mpc' = [mpc EXCEPT ![p] = "rename"]
    /\ mtmp' = [mtmp EXCEPT ![p] = now]
    /\ file' = WriteTemp(file, now)
    /\ UNCHANGED <<storeVars, lockVars, now, reloadVars, histVars, plugVars>>
    /\ UNCHANGED <<msnap, mgen, mret, mrec>>

\* CreateTemp, Write, Close or Rename fails: the temporary file is removed,
\* the backing file is untouched and the error is returned
PersistFail(p) ==
    /\ mpc[p] \in {"write", "rename"}
    /\ ioFails < MaxFail
    /\ ioFails' = ioFails + 1
    /\ failed' = failed \cup {<<mgen[p], mrec[p]>>}
    /\ persistMu' = "free"
    /\ Return(p, "ErrIO")
    /\ UNCHANGED <<storeVars, mu, envVars, reloadVars, plugVars>>
    /\ UNCHANGED <<extEdits, writtenGen, upserted, deleted, mutSinceRead, pendingExt, skipped>>

\* os.Rename succeeds: the backing file is the temporary file
PersistRename(p) ==
    /\ mpc[p] = "rename"
    /\ file' = FileOf(msnap[p], TRUE, mtmp[p])
    /\ writtenGen' = mgen[p]
    /\ mpc' = [mpc EXCEPT ![p] = "meta"]
    /\ UNCHANGED <<storeVars, lockVars, now, reloadVars, plugVars>>
    /\ UNCHANGED <<msnap, mgen, mtmp, mret, mrec>>
    /\ UNCHANGED <<extEdits, ioFails, failed, upserted, acked, deleted, mutSinceRead, pendingExt, skipped>>

\* s.mu.Lock(); s.persisted = gen
PersistMeta(p) ==
    /\ mpc[p] = "meta"
    /\ mu = "free"
    /\ mu' = p
    /\ persisted' = PersistedValue(mgen[p])
    /\ mpc' = [mpc EXCEPT ![p] = "metastat"]
    /\ UNCHANGED <<records, generation, lastMod, syncPolicy, maxRecords, persistMu, plugVars>>
    /\ UNCHANGED <<envVars, reloadVars, histVars>>
    /\ UNCHANGED <<msnap, mgen, mtmp, mret, mrec>>

\* os.Stat under mu, s.lastMod, s.mu.Unlock(), the deferred
\* persistMu.Unlock(), return nil
PersistStat(p) ==
    /\ mpc[p] = "metastat"
    /\ lastMod' = StatLastMod(file, lastMod)
    /\ mu' = "free"
    /\ persistMu' = "free"
    /\ Return(p, "nil")
    /\ UNCHANGED <<records, generation, persisted, syncPolicy, maxRecords, plugVars>>
    /\ UNCHANGED <<envVars, reloadVars>>
    /\ UNCHANGED <<extEdits, ioFails, failed, writtenGen, upserted, deleted, mutSinceRead, pendingExt, skipped>>

\* ----------------------------------------------------------- checkReload
\* mutant: phase 3 re-checks the generation but not the modification time
ReloadWantedNoMtime(gen, done, observed, recorded) == ~(gen > done)

\* mutant: phase 3 re-checks the modification time but not the generation
ReloadWantedNoGeneration(gen, done, observed, recorded) == observed > recorded

\* both conditions of a reload: no mutation is pending and the observed
\* modification time is after the recorded one
ReloadWanted(gen, done, observed, recorded) ==
    ~(gen > done) /\ observed > recorded

\* mutant: bytes that do not parse are taken for an empty record list
ParseOkAlways(raw) == TRUE

\* json.Unmarshal in loadFromBytes returns no error
ParseOk(raw) == raw.ok

\* checkReload returns
ReloadReturn ==
    /\ rpc' = "idle"
    /\ rLastMod' = 0
    /\ rInfo' = 0
    /\ rRaw' = NoRaw
    /\ mutSinceRead' = FALSE

\* a tick: persistMu.TryLock(); a running persist ends the tick
ReloadTick ==
    /\ rpc = "idle"
    /\ rpc' = IF persistMu = "free" THEN "phase1" ELSE "idle"
    /\ UNCHANGED <<storeVars, lockVars, envVars, callVars, histVars, plugVars>>
    /\ UNCHANGED <<rLastMod, rInfo, rRaw>>

\* phase 1: under mu.RLock(), skip when a mutation is pending, else copy lastMod
ReloadPhase1 ==
    /\ rpc = "phase1"
    /\ mu = "free"
    /\ IF generation > persisted
       THEN ReloadReturn
       ELSE /\ rpc' = "stat"
            /\ rLastMod' = lastMod
            /\ UNCHANGED <<rInfo, rRaw, mutSinceRead>>
    /\ UNCHANGED <<storeVars, lockVars, envVars, callVars, plugVars>>
    /\ UNCHANGED <<extEdits, ioFails, failed, writtenGen, upserted, acked, deleted, pendingExt, skipped>>

\* os.Stat outside the locks and the first comparison of modification times
ReloadStat ==
    /\ rpc = "stat"
    /\ IF file.exists /\ file.mtime > rLastMod
       THEN /\ rpc' = "read"
            /\ rInfo' = file.mtime
            /\ UNCHANGED <<rLastMod, rRaw, mutSinceRead>>
       ELSE ReloadReturn
    /\ UNCHANGED <<storeVars, lockVars, envVars, callVars, plugVars>>
    /\ UNCHANGED <<extEdits, ioFails, failed, writtenGen, upserted, acked, deleted, pendingExt, skipped>>

\* phase 2: os.ReadFile outside the locks
ReloadRead ==
    /\ rpc = "read"
    /\ IF file.exists
       THEN /\ rpc' = "phase3"
            /\ rRaw' = [recs |-> file.recs, ok |-> file.ok]
            /\ mutSinceRead' = FALSE
            /\ UNCHANGED <<rLastMod, rInfo>>
       ELSE /\ rpc' = "logerr"
            /\ UNCHANGED <<rLastMod, rInfo, rRaw, mutSinceRead>>
    /\ UNCHANGED <<storeVars, lockVars, envVars, callVars, plugVars>>
    /\ UNCHANGED <<extEdits, ioFails, failed, writtenGen, upserted, acked, deleted, pendingExt, skipped>>

\* phase 3: mu.Lock(), both re-checks, json.Unmarshal and the swap of the
\* index (loadFromBytes up to "s.records = records"); mu stays held. When
\* the bytes do not parse loadFromBytes returns the error before it assigns
\* anything, and checkReload goes on to log it, still under mu.
ReloadSwap ==
    /\ rpc = "phase3"
    /\ mu = "free"
    /\ IF ~ReloadWanted(generation, persisted, rInfo, lastMod)
       THEN /\ ReloadReturn
            /\ UNCHANGED <<records, mu>>
       ELSE IF ParseOk(rRaw)
       THEN /\ records' = GroupByName(rRaw.recs)
            /\ mu' = "reload"
            /\ rpc' = "loadstat"
            /\ UNCHANGED <<rLastMod, rInfo, rRaw, mutSinceRead>>
       ELSE /\ mu' = "reload"
            /\ rpc' = "logerr"
            /\ UNCHANGED <<records, rLastMod, rInfo, rRaw, mutSinceRead>>
    /\ UNCHANGED <<generation, persisted, lastMod, syncPolicy, maxRecords, persistMu, plugVars>>
    /\ UNCHANGED <<envVars, callVars>>
    /\ UNCHANGED <<extEdits, ioFails, failed, writtenGen, upserted, acked, deleted, pendingExt, skipped>>

\* the os.Stat at the end of loadFromBytes, still under mu, and the
\* deferred mu.Unlock()
ReloadLoadStat ==
    /\ rpc = "loadstat"
    /\ lastMod' = StatLastMod(file, lastMod)
    /\ mu' = "free"
    /\ ReloadReturn
    /\ UNCHANGED <<records, generation, persisted, syncPolicy, maxRecords, persistMu, plugVars>>
    /\ UNCHANGED <<envVars, callVars>>
    /\ UNCHANGED <<extEdits, ioFails, failed, writtenGen, upserted, acked, deleted, pendingExt, skipped>>

\* log.Errorf of the read or parse error and the return of checkReload (with
\* the deferred mu.Unlock() after a parse error); run() waits for the next tick
ReloadLogError ==
    /\ rpc = "logerr"
    /\ mu' = IF mu = "reload" THEN "free" ELSE mu
    /\ ReloadReturn
    /\ UNCHANGED <<storeVars, persistMu, envVars, callVars, plugVars>>
    /\ UNCHANGED <<extEdits, ioFails, failed, writtenGen, upserted, acked, deleted, pendingExt, skipped>>

\* ----------------------------------------------------------- environment
\* contents an external writer may put in the file: well-formed JSON with
\* records, or bytes that do not parse
ExtContents == {[recs |-> <<r4>>, ok |-> TRUE], [recs |-> <<>>, ok |-> FALSE]}

\* an external writer replaces the backing file; the new file carries the
\* current time, or an earlier one when it was prepared elsewhere and moved
\* into place
ExtWrite(c, m) ==
    /\ extEdits < MaxExt
    /\ extEdits' = extEdits + 1
    /\ file' = FileOf(c.recs, c.ok, m)
    /\ pendingExt' = IF c.ok /\ m > lastMod /\ generation = persisted /\ mu = "free"
                      THEN generation ELSE -1
    /\ UNCHANGED <<storeVars, lockVars, now, callVars, reloadVars, plugVars>>
    /\ UNCHANGED <<ioFails, failed, writtenGen, upserted, acked, deleted, mutSinceRead, skipped>>

\* the backing file is removed
ExtRemove ==
    /\ extEdits < MaxExt
    /\ file.exists
    /\ extEdits' = extEdits + 1
    /\ file' = NoFile
    /\ pendingExt' = -1
    /\ UNCHANGED <<storeVars, lockVars, now, callVars, reloadVars, plugVars>>
    /\ UNCHANGED <<ioFails, failed, writtenGen, upserted, acked, deleted, mutSinceRead, skipped>>

\* some file, or a modification time the store holds, carries time t
TimeInUse(t) ==
    \/ file.exists /\ file.mtime = t
    \/ lastMod = t
    \/ \E p \in Procs : mpc[p] = "rename" /\ mtmp[p] = t
    \/ rpc = "stat" /\ rLastMod = t
    \/ rpc \in {"read", "phase3"} /\ rInfo = t

\* the clock advances; the program sees the clock only through modification
\* times, which it only compares, so a time that nothing carries is not
\* skipped
ClockTick ==
    /\ now < MaxTime
    /\ TimeInUse(now)
    /\ now' = now + 1
    /\ UNCHANGED <<storeVars, lockVars, file, callVars, reloadVars, histVars, plugVars>>

\* ---------------------------------------------------------- specification
Mutate(p) ==
    \/ \E r \in UpsertInputs : Upsert(p, r)
    \/ Delete(p, "A.EX.", "a", "10.0.0.1")
    \/ DeleteByType(p, "a.ex.", "A")
    \/ DeleteAll(p, "a.ex.")

Persist(p) ==
    \/ PersistBegin(p)
    \/ PersistWrite(p)
    \/ PersistFail(p)
    \/ PersistRename(p)
    \/ PersistMeta(p)
    \/ PersistStat(p)

Reload ==
    \/ ReloadTick
    \/ ReloadPhase1
    \/ ReloadStat
    \/ ReloadRead
    \/ ReloadSwap
    \/ ReloadLoadStat
    \/ ReloadLogError

Env ==
    \/ \E c \in ExtContents : \E m \in 0..now : ExtWrite(c, m)
    \/ ExtRemove
    \/ ClockTick

Next ==
    \/ \E p \in Procs : Mutate(p)
    \/ \E p \in Procs : Persist(p)
    \/ Reload
    \/ Env

Spec == Init /\ [][Next]_vars

\* ------------------------------------------------- the calls one by one
\* Callers of the mutating operations alone (no tick, nobody else writes the
\* file), on a store of any policy and limit that loaded a file with
\* records: the file may hold the same record twice, which loadFromBytes
\* groups by name without looking at type or value.
CallFiles == {<<>>, <<r1>>, <<r1, r5, r3, r4>>, <<r1, r1>>}
CallPolicies == {PolicySync, PolicyCreateOnly, PolicyUpdateOnly, PolicyUpsertOnly}
CallLimits == {0, 1, 2}

\* arguments of the calls: every record of the model; triples that are and
\* are not in the store, in either case of name and type; a name with no
\* records
CallRecords == {r1, r2, r3, r4, r5}
DeleteArgs == {<<"A.EX.", "a", "10.0.0.1">>, <<"a.ex.", "A", "10.0.0.7">>,
               <<"b.ex.", "A", "10.0.0.1">>, <<"a.ex.", "TXT", "10.0.0.1">>}
DeleteByTypeArgs == {<<"A.EX.", "a">>, <<"a.ex.", "TXT">>, <<"b.ex.", "cname">>}
DeleteAllArgs == {"A.EX.", "b.ex."}

InitCalls == InitStoreFrom(CallFiles, CallPolicies, CallLimits)

MutateCalls(p) ==
    \/ \E r \in CallRecords : Upsert(p, r)
    \/ \E d \in DeleteArgs : Delete(p, d[1], d[2], d[3])
    \/ \E d \in DeleteByTypeArgs : DeleteByType(p, d[1], d[2])
    \/ \E n \in DeleteAllArgs : DeleteAll(p, n)

NextCalls ==
    \/ \E p \in Procs : MutateCalls(p)
    \/ \E p \in Procs : Persist(p)

SpecCalls == InitCalls /\ [][NextCalls]_vars

\* every configuration of the store: each policy, without and with a record limit
InitConfig ==
    InitStore({PolicySync, PolicyCreateOnly, PolicyUpdateOnly, PolicyUpsertOnly}, {0, 1})

SpecConfig == InitConfig /\ [][Next]_vars

\* the ticker keeps firing and a goroutine that is inside persistSnapshot or
\* checkReload keeps running; nothing obliges callers to start new calls,
\* the environment to edit the file or the clock to advance
FairSpec ==
    /\ Spec
    /\ WF_vars(Reload)
    /\ \A p \in Procs : WF_vars(Persist(p))

\* ------------------------------------------------------------ properties
\* no mutating call is in progress
Quiescent == \A p \in Procs : mpc[p] = "idle"

\* the backing file, when reloaded, gives the in-memory index
FileReflectsMemory ==
    file.exists /\ file.ok /\ GroupByName(file.recs) = records

\* C1: a persist attempt that finds, under persistMu, its generation less
\* than or equal to persisted returns without touching the backing file, and
\* the generation of the snapshot the store last renamed onto the file never
\* decreases.
C1_StalePersistWritesNothing ==
    [][ /\ \A p \in Procs :
              (mpc[p] = "persist" /\ mpc'[p] # "persist" /\ mgen[p] <= persisted)
                  => (mpc'[p] = "idle" /\ file' = file /\ writtenGen' = writtenGen)
        /\ writtenGen' >= writtenGen ]_vars

\* a stale attempt has been skipped after a newer snapshot was written
C1_Witness == skipped /\ writtenGen >= 2 /\ persisted = writtenGen

\* C2: once every call has returned, with no failed persist and no external
\* edit, persisted equals the highest generation produced and the backing
\* file holds exactly the records of the in-memory index.
C2_FinalPersistedState ==
    (Quiescent /\ ioFails = 0 /\ extEdits = 0 /\ generation > 0)
        => /\ persisted = generation
           /\ writtenGen = generation
           /\ FileReflectsMemory

\* two concurrent calls have returned, one of them skipped as stale
C2_Witness ==
    Quiescent /\ ioFails = 0 /\ extEdits = 0 /\ generation >= 2 /\ skipped
        /\ mret = [p \in Procs |-> "nil"]

\* C3: checkReload swaps the index only when, under mu, generation is not
\* greater than persisted and the observed modification time is after
\* lastMod, and never when a mutation was applied after it read the file.
C3_ReloadSwapGuard ==
    (rpc = "loadstat") =>
        (generation <= persisted /\ rInfo > lastMod /\ ~mutSinceRead)

\* the first half of C3 alone: the two conditions re-checked under mu
C3_SwapConditions ==
    (rpc = "loadstat") => (generation <= persisted /\ rInfo > lastMod)

\* C4: with no external edit and only Upsert calls, every record whose
\* Upsert returned nil is still in List(), whatever ticks ran in between.
C4_NoAckedRecordLost ==
    (extEdits = 0 /\ ~deleted) =>
        acked \subseteq {Identity(r) : r \in Range(List(records))}

\* a tick found the store's own write newer than the lastMod it had copied
\* and is about to re-check, after an Upsert returned nil
C4_Witness == extEdits = 0 /\ ~deleted /\ acked # {} /\ rpc = "phase3"

\* C5: concurrent Upserts are applied one at a time: the index holds every
\* identity upserted so far, each exactly once.
C5_NoLostUpdate ==
    (extEdits = 0 /\ ~deleted) =>
        /\ Identities(records) = upserted
        /\ CountLocked(records) = Cardinality(upserted)

\* two Upserts of distinct identities are both in flight
C5_Witness ==
    /\ extEdits = 0 /\ ~deleted
    /\ Cardinality(upserted) = 2
    /\ \A p \in Procs : mpc[p] # "idle" /\ mrec[p] # <<>>
    /\ mrec["p1"] # mrec["p2"]

\* C6: persisted never exceeds generation.
C6_PersistedAtMostGeneration == persisted <= generation

\* a persist failed, a later one succeeded, and a tick is under way
C6_Witness == ioFails > 0 /\ persisted > 0 /\ extEdits > 0 /\ rpc # "idle"

\* C7 as stated: whenever persisted equals generation the backing file
\* reflects memory, external edits included.
C7_Original == (persisted = generation) => FileReflectsMemory

\* C7 amended: whenever persisted equals generation and the file has not been
\* edited externally, the backing file holds exactly the records in memory.
C7_EqualMeansFaithful ==
    (persisted = generation /\ extEdits = 0) => FileReflectsMemory

\* persisted caught up with generation after a failed persist
C7_Witness ==
    persisted = generation /\ extEdits = 0 /\ generation >= 2 /\ ioFails > 0

\* C8: generation changes only in the step in which an apply* call passes
\* its checks, and then by exactly one.
C8_GenerationStep ==
    [][ /\ generation' \in {generation, generation + 1}
        /\ (generation' = generation + 1)
              <=> (\E p \in Procs : mpc[p] = "idle" /\ mpc'[p] = "persist") ]_vars

\* one call was rejected by the record limit after another was applied
C8_Witness ==
    generation >= 1 /\ \E p \in Procs : mret[p] = "ErrLimit" /\ mpc[p] = "idle"

\* C9: while the file is not edited externally, a persist that completes
\* leaves lastMod equal to the modification time of the file it wrote, and no
\* tick replaces the index.
C9_OwnWriteNotReloaded ==
    [][ (extEdits' = 0) =>
          /\ \A p \in Procs :
                (mpc[p] = "metastat" /\ mpc'[p] = "idle")
                    => (lastMod' = file'.mtime /\ file'.recs = msnap[p])
          /\ ~(rpc = "phase3" /\ rpc' = "loadstat") ]_vars

\* after a completed persist a tick saw the store's own file and re-checks
C9_Witness ==
    /\ extEdits = 0 /\ rpc = "phase3"
    /\ persisted = generation /\ generation > 0
    /\ lastMod = rInfo /\ mu = "free"

\* an external writer put a well-formed file with a modification time after
\* lastMod while generation equalled persisted, and no mutation or external
\* edit happened since
ExtPending == pendingExt >= 0 /\ pendingExt = generation

\* C10: such an external file is eventually the content of the index.
C10_ExternalEditLoaded ==
    ExtPending ~> (records = GroupByName(file.recs) \/ ~ExtPending)

\* C11: a tick that fails to read or to parse the file goes to the log call
\* and from there back to waiting for the next tick; no step of a tick other
\* than the swap and the os.Stat that follows it changes the index,
\* generation, persisted or lastMod.
C11_FailedTickChangesNothing ==
    [][ /\ (rpc' # rpc /\ rpc # "loadstat" /\ rpc' # "loadstat")
              => UNCHANGED <<records, generation, persisted, lastMod>>
        /\ (rpc' # rpc /\ rpc = "read" /\ ~file.exists) => rpc' = "logerr"
        /\ (rpc' # rpc /\ rpc = "phase3" /\ ~rRaw.ok
                /\ ReloadWanted(generation, persisted, rInfo, lastMod))
              => rpc' = "logerr"
        /\ (rpc' # rpc /\ rpc = "logerr") => (rpc' = "idle" /\ mu' # "reload") ]_vars

\* a tick is logging a parse error after a mutation was persisted
C11_Witness == rpc = "logerr" /\ mu = "reload" /\ persisted > 0 /\ ~rRaw.ok

\* C12: the store changes the backing file only in the rename step, and
\* then to the complete snapshot of the renaming call; a persist attempt
\* that fails returns the error and leaves the file and persisted as they
\* were.
C12_AtomicReplace ==
    [][ /\ (file' # file /\ extEdits' = extEdits) =>
              \E p \in Procs :
                  /\ mpc[p] = "rename" /\ mpc'[p] = "meta"
                  /\ file'.exists /\ file'.ok /\ file'.recs = msnap[p]
        /\ \A p \in Procs :
              (mpc[p] \in {"write", "rename"} /\ mpc'[p] = "idle")
                  => (mret'[p] = "ErrIO" /\ file' = file /\ persisted' = persisted) ]_vars

\* the persist attempt of generation 2 failed; the file holds the complete
\* snapshot of generation 1, not the index of generation 2
C12_Witness ==
    /\ \E p \in Procs : mpc[p] = "idle" /\ mret[p] = "ErrIO"
    /\ extEdits = 0 /\ writtenGen = 1 /\ generation = 2
    /\ file.ok /\ file.recs # CollectLocked(records)

\* C13: a persist attempt that fails returns the error and leaves the index
\* and generation as the mutation made them, with generation above
\* persisted; the next call whose persist succeeds (the failed generation is
\* still above persisted when it renames) renames onto the file a snapshot
\* that holds the record of the failed call as well, and returns with
\* persisted equal to its generation.
C13_FailedPersistKeepsChange ==
    [][ /\ \A p \in Procs :
              (mpc[p] \in {"write", "rename"} /\ mpc'[p] = "idle") =>
                  /\ mret'[p] = "ErrIO"
                  /\ records' = records /\ generation' = generation
                  /\ generation' > persisted'
                  /\ (~deleted /\ mrec[p] # <<>>) => mrec[p] \in Identities(records')
        /\ \A q \in Procs :
              (mpc[q] = "rename" /\ mpc'[q] = "meta") =>
                  /\ file'.recs = msnap[q]
                  /\ ~deleted =>
                        \A f \in failed :
                            (persisted < f[1] /\ f[1] < mgen[q] /\ f[2] # <<>>)
                                => f[2] \in {Identity(r) : r \in Range(file'.recs)}
        /\ \A q \in Procs :
              (mpc[q] = "metastat" /\ mpc'[q] = "idle")
                  => (mret'[q] = "nil" /\ persisted' = mgen[q]) ]_vars

\* the Upsert of generation 1 failed to persist, the call of generation 2
\* succeeded, and the file holds the record of the failed call
C13_Witness ==
    /\ Quiescent /\ ~deleted /\ persisted = 2 /\ generation = 2
    /\ \E f \in failed :
          f[1] = 1 /\ f[2] # <<>> /\ f[2] \in {Identity(r) : r \in Range(file.recs)}
    /\ \E q \in Procs : mret[q] = "nil"

\* the store holds a record with the identity of r
Present(r) == Identity(r) \in Identities(records)

\* the call of p that this step starts is refused by the policy
Denied(p) == mret'[p] = "ErrPolicyDenied" /\ mpc'[p] = "idle"

\* the call of p that this step starts is applied and goes on to persist
Applied(p) == mret'[p] = "pending" /\ mpc'[p] = "persist"

\* C14: the policy table. Upsert is refused by the policy exactly under
\* CreateOnly for an identity the store holds and under UpdateOnly for one it
\* does not hold; every delete form is refused exactly when the policy is
\* not Sync, and is applied otherwise.
C14_PolicyTable ==
    [][ \A p \in Procs :
          /\ \A r \in CallRecords :
                Upsert(p, r) =>
                    /\ Denied(p) <=> \/ syncPolicy = PolicyCreateOnly /\ Present(r)
                                     \/ syncPolicy = PolicyUpdateOnly /\ ~Present(r)
                    /\ (syncPolicy \in {PolicySync, PolicyUpsertOnly})
                          => mret'[p] \in {"pending", "ErrLimit"}
                    /\ (maxRecords = 0 /\ ~Denied(p)) => Applied(p)
          /\ \A d \in DeleteArgs :
                Delete(p, d[1], d[2], d[3]) =>
                    IF syncPolicy = PolicySync THEN Applied(p) ELSE Denied(p)
          /\ \A d \in DeleteByTypeArgs :
                DeleteByType(p, d[1], d[2]) =>
                    IF syncPolicy = PolicySync THEN Applied(p) ELSE Denied(p)
          /\ \A n \in DeleteAllArgs :
                DeleteAll(p, n) =>
                    IF syncPolicy = PolicySync THEN Applied(p) ELSE Denied(p) ]_vars

\* under UpdateOnly one caller's update was applied and the other's call
\* (an Upsert of a new identity, or a delete form) was refused
C14_Witness ==
    /\ syncPolicy = PolicyUpdateOnly /\ generation = 1
    /\ \E p, q \in Procs : mret[p] = "ErrPolicyDenied" /\ mpc[q] = "persist"

\* C15: a call refused by the policy or by the record limit returns at
\* once: the index, generation, persisted, lastMod and the backing file are
\* as before and the caller does not enter persistSnapshot.
C15_RejectedChangesNothing ==
    [][ \A p \in Procs :
          (MutateCalls(p) /\ mret'[p] \in {"ErrPolicyDenied", "ErrLimit"}) =>
              /\ UNCHANGED <<records, generation, persisted, lastMod, file>>
              /\ UNCHANGED <<persistMu, writtenGen, ioFails>>
              /\ mpc'[p] = "idle" /\ msnap'[p] = <<>> ]_vars

\* a call was refused by the record limit and another by the policy, on a
\* store whose file was never written
C15_Witness ==
    /\ mret["p1"] = "ErrLimit" /\ mret["p2"] = "ErrPolicyDenied"
    /\ Quiescent /\ generation = 0 /\ writtenGen = 0 /\ CountLocked(records) > 0

\* C16: with maxRecords = N > 0, an Upsert of a new identity into a store
\* of N or more records returns the limit error and leaves the index as it
\* was; an Upsert of an identity the store holds is applied whatever the
\* limit and keeps the count; no step takes the count from at most N to
\* more than N; with maxRecords = 0 no Upsert returns the limit error.
C16_RecordLimit ==
    [][ /\ \A p \in Procs : \A r \in CallRecords :
              Upsert(p, r) =>
                  /\ (maxRecords > 0 /\ ~Present(r) /\ ~Denied(p)
                          /\ CountLocked(records) >= maxRecords)
                        => (mret'[p] = "ErrLimit" /\ records' = records)
                  /\ (Present(r) /\ ~Denied(p))
                        => (Applied(p) /\ CountLocked(records') = CountLocked(records))
                  /\ (mret'[p] = "ErrLimit")
                        => (maxRecords > 0 /\ ~Present(r)
                              /\ CountLocked(records) >= maxRecords)
        /\ (maxRecords > 0 /\ CountLocked(records) <= maxRecords)
              => CountLocked(records') <= maxRecords ]_vars

\* a store with a limit of one loaded r1; the record was updated to r2 by
\* one call and the Upsert of a new identity was refused by the limit
C16_Witness ==
    /\ maxRecords = 1 /\ writtenGen = 0 /\ file.recs = <<r1>>
    /\ records["a.ex."] = <<r2>> /\ records["b.ex."] = <<>>
    /\ \E p \in Procs : mret[p] = "ErrLimit" /\ mpc[p] = "idle"

\* no two records of the sequence have the same identity
UniqueIn(recs) ==
    \A i, j \in 1..Len(recs) : Identity(recs[i]) = Identity(recs[j]) => i = j

\* the number of records of the sequence with the identity of r
CountOf(recs, r) == Cardinality({i \in 1..Len(recs) : Identity(recs[i]) = Identity(r)})

\* an applied Upsert(r) appends r when the store did not hold its identity,
\* and otherwise replaces, where it is, the first record with that identity;
\* every other record stays as and where it was
UpsertInPlace(p, r) ==
    LET key == ToLower(r.Name)
        old == records[key]
        new == records'[key]
    IN /\ \A k \in Keys \ {key} : records'[k] = records[k]
       /\ IF Present(r)
          THEN /\ Len(new) = Len(old)
               /\ \E i \in 1..Len(old) :
                     /\ Identity(old[i]) = Identity(r)
                     /\ new[i] = r
                     /\ \A j \in 1..Len(old) : j # i => new[j] = old[j]
          ELSE new = Append(old, r)

\* C17: after an applied Upsert(r) the store holds exactly one record with
\* the identity of r, that record is r (the fields of the latest call), it
\* is where the first Upsert of the identity put it, and every other record
\* is unchanged.
C17_UpsertIdempotent ==
    [][ \A p \in Procs : \A r \in CallRecords :
          (Upsert(p, r) /\ Applied(p)) =>
              /\ UpsertInPlace(p, r)
              /\ CountOf(records'[ToLower(r.Name)], r) = 1 ]_vars

\* C17 without the count: holds also on a store that loaded the same
\* identity twice
C17_ReplacesInPlace ==
    [][ \A p \in Procs : \A r \in CallRecords :
          (Upsert(p, r) /\ Applied(p)) => UpsertInPlace(p, r) ]_vars

\* C18: no name's collection holds two records with the same type and value.
C18_UniqueIdentities == \A k \in Keys : UniqueIn(records[k])

\* the mutating calls keep a unique index unique: the two records of one
\* identity come from the file, not from Upsert
C18_CallsPreserveUniqueness ==
    [][ (\A k \in Keys : UniqueIn(records[k]))
            => (\A k \in Keys : UniqueIn(records'[k])) ]_vars

\* the sequence without the records that match, from position i on, the
\* others in the order they had
RECURSIVE Without(_, _, _)
Without(recs, match(_), i) ==
    IF i > Len(recs) THEN <<>>
    ELSE IF match(recs[i]) THEN Without(recs, match, i + 1)
    ELSE <<recs[i]>> \o Without(recs, match, i + 1)

\* C19: an applied Delete(name, type, value) removes the record carrying the
\* triple and nothing else: the other records under the name keep their
\* order, the other names are untouched; when no record carries the triple
\* (or the name has no record) the call is applied all the same and the
\* index is as before.
C19_DeleteExactly ==
    [][ \A p \in Procs : \A d \in DeleteArgs :
          (Delete(p, d[1], d[2], d[3]) /\ syncPolicy = PolicySync) =>
              LET key == ToLower(d[1])
                  hit(r) == Identity(r) = <<key, Fold(d[2]), d[3]>>
              IN /\ Applied(p)
                 /\ \A k \in Keys \ {key} : records'[k] = records[k]
                 /\ records'[key] = Without(records[key], hit, 1)
                 /\ (\A i \in 1..Len(records[key]) : ~hit(records[key][i]))
                       => records' = records
                 /\ (UniqueIn(records[key]) /\ \E i \in 1..Len(records[key]) : hit(records[key][i]))
                       => Len(records'[key]) = Len(records[key]) - 1 ]_vars

\* one Delete removed r1 from between its neighbours; the record of the
\* same value and another type, the other value and the other name stayed
C19_Witness ==
    /\ generation = 1 /\ deleted /\ file.recs = <<r1, r5, r3, r4>>
    /\ records["a.ex."] = <<r5, r3>> /\ records["b.ex."] = <<r4>>

\* C20: an applied DeleteByType(name, type) removes the records under the
\* name whose type matches, in either case, and no other record, in one
\* step under mu: generation goes up by exactly one and the caller enters
\* persistSnapshot once, with that generation and the snapshot of the new
\* index.
C20_DeleteByTypeOnce ==
    [][ \A p \in Procs : \A d \in DeleteByTypeArgs :
          (DeleteByType(p, d[1], d[2]) /\ syncPolicy = PolicySync) =>
              LET key == ToLower(d[1])
                  hit(r) == Fold(r.Type) = Fold(d[2])
              IN /\ mu = "free" /\ mu' = "free"
                 /\ \A k \in Keys \ {key} : records'[k] = records[k]
                 /\ records'[key] = Without(records[key], hit, 1)
                 /\ generation' = generation + 1
                 /\ Applied(p) /\ mpc[p] = "idle"
                 /\ mgen'[p] = generation'
                 /\ Range(msnap'[p]) = Range(List(records'))
                 /\ \A q \in Procs \ {p} : mpc'[q] = mpc[q] ]_vars

\* one DeleteByType removed both A records under a.ex. (r1 and r3) with
\* generation at one; the TXT record and the other name stayed
C20_Witness ==
    /\ generation = 1 /\ deleted /\ file.recs = <<r1, r5, r3, r4>>
    /\ records["a.ex."] = <<r5>> /\ records["b.ex."] = <<r4>>
    /\ \E p \in Procs : mpc[p] = "persist" /\ mgen[p] = 1 /\ msnap[p] = <<r5, r4>>

\* ------------------------------------------------------ the file format
\* Record with every field of the struct
Record(n, t, ttl, v, priority, weight, port, flag, tag) ==
    [Name |-> n, Type |-> t, TTL |-> ttl, Value |-> v, Priority |-> priority,
     Weight |-> weight, Port |-> port, Flag |-> flag, Tag |-> tag]

\* the struct's json tags; the last five carry omitempty
JSONKeys == {"name", "type", "ttl", "value", "priority", "weight", "port", "flag", "tag"}
OmitEmpty == {"priority", "weight", "port", "flag", "tag"}

\* the zero value of the field behind a key
Zero(key) == IF key \in {"name", "type", "value", "tag"} THEN "" ELSE 0

\* the field behind a key
Field(r, key) ==
    CASE key = "name" -> r.Name
      [] key = "type" -> r.Type
      [] key = "ttl" -> r.TTL
      [] key = "value" -> r.Value
      [] key = "priority" -> r.Priority
      [] key = "weight" -> r.Weight
      [] key = "port" -> r.Port
      [] key = "flag" -> r.Flag
      [] key = "tag" -> r.Tag

\* mutant: the priority is never written
MarshalRecordOmitsPriority(r) ==
    [key \in {k \in JSONKeys \ {"priority"} : k \notin OmitEmpty \/ Field(r, k) # Zero(k)} |->
        Field(r, key)]

\* json.Marshal of one Record: an object with a member per field, the
\* omitempty fields left out when they hold their zero value
MarshalRecord(r) ==
    [key \in {k \in JSONKeys : k \notin OmitEmpty \/ Field(r, k) # Zero(k)} |->
        Field(r, key)]

\* json.Unmarshal's treatment of one member: a key the object lacks leaves
\* the field at its zero value
Member(obj, key) == IF key \in DOMAIN obj THEN obj[key] ELSE Zero(key)

\* json.Unmarshal of one object into a Record
UnmarshalRecord(obj) ==
    Record(Member(obj, "name"), Member(obj, "type"), Member(obj, "ttl"),
           Member(obj, "value"), Member(obj, "priority"), Member(obj, "weight"),
           Member(obj, "port"), Member(obj, "flag"), Member(obj, "tag"))

\* persistSnapshot's json.MarshalIndent of storeFile{Records: all}
Marshal(all) == [records |-> [i \in 1..Len(all) |-> MarshalRecord(all[i])]]

\* loadFromBytes's json.Unmarshal into a storeFile
Unmarshal(doc) == [i \in 1..Len(doc.records) |-> UnmarshalRecord(doc.records[i])]

\* records of every shape the file format distinguishes: no optional field,
\* a priority, priority weight and port, flag and tag; f3 has an upper-case name
f1 == Record("a.ex.", "A", 300, "10.0.0.1", 0, 0, 0, 0, "")
f2 == Record("b.ex.", "MX", 3600, "mx1.ex.", 10, 0, 0, 0, "")
f3 == Record("A.EX.", "SRV", 300, "sip.ex.", 1, 2, 5060, 0, "")
f4 == Record("b.ex.", "CAA", 300, "ca.ex", 0, 0, 0, 128, "issue")
\* f1 with another TTL: the same identity
f5 == Record("a.ex.", "A", 600, "10.0.0.1", 0, 0, 0, 0, "")
FileRecords == {f1, f2, f3, f4, f5}

\* NewStore on the backing file as it is now: the bytes persistSnapshot
\* wrote are the encoding of the snapshot file.recs; loadFromBytes decodes
\* them and groups the records by lowercase name; List() of the new store
Reopen ==
    /\ file.exists
    /\ file.ok
    /\ rcall' = [op |-> "load",
                 list |-> List(GroupByName(Unmarshal(Marshal(file.recs))))]
    /\ UNCHANGED <<storeVars, lockVars, envVars, callVars, reloadVars, histVars, handler, dnsq>>

MutateFile(p) ==
    \/ \E r \in FileRecords : Upsert(p, r)
    \/ Delete(p, "a.ex.", "a", "10.0.0.1")

NextFile ==
    \/ \E p \in Procs : MutateFile(p)
    \/ \E p \in Procs : Persist(p)
    \/ Reopen

\* the store on a new file, its callers, and a second store opened on the file
SpecFile == Init /\ [][NextFile]_vars

\* the same records with the same fields, whatever the order
SameRecords(a, b) ==
    \A r \in Range(a) \cup Range(b) :
        Cardinality({i \in 1..Len(a) : a[i] = r}) = Cardinality({i \in 1..Len(b) : b[i] = r})

\* C21: round trip. When every mutation so far has returned without error
\* and no call is in progress, a new store constructed from the backing file
\* lists exactly the records the original store lists, with the same fields,
\* order ignored.
C21_RoundTrip ==
    [][ (Reopen /\ Quiescent /\ ioFails = 0) => SameRecords(rcall'.list, List(records)) ]_vars

\* a store of two records, one with and one without optional fields, has
\* been persisted and reopened
C21_Witness ==
    /\ rcall.op = "load"
    /\ Quiescent
    /\ ioFails = 0
    /\ generation = 2
    /\ Len(rcall.list) = 2
    /\ \E i, j \in 1..2 : rcall.list[i].Priority # 0 /\ rcall.list[j].Port = 0 /\ rcall.list[j].Tag = ""
    /\ SameRecords(rcall.list, List(records))

\* ------------------------------------------------------------ the resolver
\* the longest alias chain a store of the model holds
MaxChain == 12

maxCNAMEHops == 10

\* dns.StringToType and dns.TypeToString on the types of the model; a string
\* that names no type maps to 0, a number that is no type to ""
StringToType(s) ==
    CASE s = "A" -> 1 [] s = "NS" -> 2 [] s = "CNAME" -> 5 [] s = "SOA" -> 6
      [] s = "PTR" -> 12 [] s = "MX" -> 15 [] s = "TXT" -> 16 [] s = "AAAA" -> 28
      [] s = "SRV" -> 33 [] s = "CAA" -> 257 [] OTHER -> 0
TypeToString(t) ==
    CASE t = 1 -> "A" [] t = 2 -> "NS" [] t = 5 -> "CNAME" [] t = 6 -> "SOA"
      [] t = 12 -> "PTR" [] t = 15 -> "MX" [] t = 16 -> "TXT" [] t = 28 -> "AAAA"
      [] t = 33 -> "SRV" [] t = 257 -> "CAA" [] OTHER -> ""

supportedTypes == {"A", "AAAA", "CNAME", "TXT", "MX", "SRV", "NS", "PTR", "CAA"}

\* the names of the chain: ChainNames[i + 1] is the name after i hops
ChainNames ==
    <<"n0.ex.", "n1.ex.", "n2.ex.", "n3.ex.", "n4.ex.", "n5.ex.", "n6.ex.", "n7.ex.",
      "n8.ex.", "n9.ex.", "n10.ex.", "n11.ex.", "n12.ex.", "n13.ex.">>

\* the domain name one label up; the root has none
Parent(name) ==
    CASE name = "." -> ""
      [] name \in {"ex.", "org."} -> "."
      [] name = "out.org." -> "org."
      [] name \in {"h.sub.ex.", "x.sub.ex."} -> "sub.ex."
      [] OTHER -> "ex."

RECURSIVE CountLabel(_)
\* dns.CountLabel
CountLabel(name) == IF name = "." THEN 0 ELSE 1 + CountLabel(Parent(name))

RECURSIVE IsSubDomain(_, _)
\* dns.IsSubDomain(parent, child): child is parent or lies below it
IsSubDomain(parent, child) ==
    \/ parent = child
    \/ child # "." /\ IsSubDomain(parent, Parent(child))

\* mutant: the shortest matching zone wins
MatchesShortest(zones, qname) ==
    LET in == {z \in zones : IsSubDomain(z, qname)}
    IN IF in = {} THEN ""
       ELSE CHOOSE z \in in : \A y \in in : CountLabel(y) >= CountLabel(z)

\* plugin.Zones.Matches: the longest of the zones the name lies in, "" when
\* it lies in none
Matches(zones, qname) ==
    LET in == {z \in zones : IsSubDomain(z, qname)}
    IN IF in = {} THEN ""
       ELSE CHOOSE z \in in : \A y \in in : CountLabel(y) <= CountLabel(z)

\* mutant: fallthrough applies to every name
ThroughAlways(fallZones, qname) == TRUE

\* fall.F.Through
Through(fallZones, qname) == Matches(fallZones, qname) # ""

\* Record.ToRR: the header takes name, type number and TTL, the data is made
\* from the value; the conversion fails on a type string that names no type
\* or none of the supported ones
ToRR(r) ==
    IF StringToType(r.Type) = 0 \/ r.Type \notin supportedTypes
    THEN [ok |-> FALSE, rr |-> <<>>]
    ELSE [ok |-> TRUE,
          rr |-> [Name |-> r.Name, Rrtype |-> StringToType(r.Type), Ttl |-> r.TTL, Data |-> r.Value]]

\* the loop over records that appends the resource record of each record
\* that converts
ConvertAll(recs) ==
    LET good == SelectSeq(recs, LAMBDA r : ToRR(r).ok)
    IN [i \in 1..Len(good) |-> ToRR(good[i]).rr]

\* mutant: only the first record of the type is kept
filterByTypeFirstOnly(recs, qtype) ==
    LET all == SelectSeq(recs, LAMBDA r : EqualFold(r.Type, TypeToString(qtype)))
    IN IF Len(all) > 0 THEN <<all[1]>> ELSE all

\* filterByType: the records whose type is, case-insensitively, the name of
\* the query type, in stored order
filterByType(recs, qtype) ==
    SelectSeq(recs, LAMBDA r : EqualFold(r.Type, TypeToString(qtype)))

RECURSIVE chaseCNAMEStopsEarly(_, _, _, _)
\* mutant: the chase gives up one level earlier
chaseCNAMEStopsEarly(index, target, qtype, depth) ==
    IF depth >= maxCNAMEHops THEN <<>>
    ELSE LET allRecords == GetAll(index, target)
             typeRecords == filterByType(allRecords, qtype)
             cnameRecords == filterByType(allRecords, StringToType("CNAME"))
         IN IF Len(allRecords) = 0 THEN <<>>
            ELSE IF Len(typeRecords) > 0 THEN ConvertAll(typeRecords)
            ELSE IF Len(cnameRecords) > 0
                 THEN <<ToRR(cnameRecords[1]).rr>>
                      \o chaseCNAMEStopsEarly(index, cnameRecords[1].Value, qtype, depth + 1)
            ELSE <<>>

RECURSIVE chaseCNAME(_, _, _, _)
\* chaseCNAME: the records found by following aliases from target, which is
\* examined at the given depth
chaseCNAME(index, target, qtype, depth) ==
    IF depth > maxCNAMEHops THEN <<>>
    ELSE LET allRecords == GetAll(index, target)
             typeRecords == filterByType(allRecords, qtype)
             cnameRecords == filterByType(allRecords, StringToType("CNAME"))
         IN IF Len(allRecords) = 0 THEN <<>>
            ELSE IF Len(typeRecords) > 0 THEN ConvertAll(typeRecords)
            ELSE IF Len(cnameRecords) > 0
                 THEN IF ~ToRR(cnameRecords[1]).ok THEN <<>>
                      ELSE <<ToRR(cnameRecords[1]).rr>>
                           \o chaseCNAME(index, cnameRecords[1].Value, qtype, depth + 1)
            ELSE <<>>

\* the synthesized SOA record of a zone (the serial is the time of day)
soa(zone) ==
    [Name |-> zone, Rrtype |-> StringToType("SOA"), Ttl |-> 300,
     Ns |-> <<"ns1.", zone>>, Mbox |-> <<"hostmaster.", zone>>]

\* what ServeDNS did: the messages it wrote, whether it called the next
\* handler, and the code it returned
Served(name, qtype, written, next, ret) ==
    [served |-> TRUE, name |-> name, qtype |-> qtype, written |-> written,
     next |-> next, ret |-> ret]

\* plugin.NextOrFailure: the query is handed to the next handler
NextOrFailure(name, qtype) == Served(name, qtype, <<>>, TRUE, "next")

\* writeAnswer, writeNXDOMAIN, writeNODATA: one message is written; wok is
\* the outcome of WriteMsg
\* mutant: the last record of the answer is not written
writeAnswerDropsLast(name, qtype, answers, wok) ==
    Served(name, qtype,
           <<[Rcode |-> "NOERROR", Answer |-> SubSeq(answers, 1, Len(answers) - 1), Ns |-> <<>>]>>,
           FALSE, IF wok THEN "NOERROR" ELSE "SERVFAIL")

\* mutant: the authority section is left empty
writeNODATAWithoutSOA(name, qtype, zone, wok) ==
    Served(name, qtype, <<[Rcode |-> "NOERROR", Answer |-> <<>>, Ns |-> <<>>]>>, FALSE,
           IF wok THEN "NOERROR" ELSE "SERVFAIL")

writeAnswer(name, qtype, answers, wok) ==
    Served(name, qtype, <<[Rcode |-> "NOERROR", Answer |-> answers, Ns |-> <<>>]>>, FALSE,
           IF wok THEN "NOERROR" ELSE "SERVFAIL")
writeNXDOMAIN(name, qtype, zone, wok) ==
    Served(name, qtype, <<[Rcode |-> "NXDOMAIN", Answer |-> <<>>, Ns |-> <<soa(zone)>>]>>, FALSE,
           IF wok THEN "NXDOMAIN" ELSE "SERVFAIL")
writeNODATA(name, qtype, zone, wok) ==
    Served(name, qtype, <<[Rcode |-> "NOERROR", Answer |-> <<>>, Ns |-> <<soa(zone)>>]>>, FALSE,
           IF wok THEN "NOERROR" ELSE "SERVFAIL")

\* the body of ServeDNS on an index that does not change while it runs:
\* what it writes and returns for a query for (name, qtype) under the zones
\* and fallthrough of h
Resolve(index, h, name, qtype, wok) ==
    LET qname == ToLower(name)
        zone == Matches(h.Zones, qname)
        allRecords == GetAll(index, qname)
        typeRecords == filterByType(allRecords, qtype)
        cnameRecords == filterByType(allRecords, StringToType("CNAME"))
    IN IF zone = "" THEN NextOrFailure(name, qtype)
       ELSE IF Len(allRecords) = 0
            THEN IF Through(h.Fall, qname) THEN NextOrFailure(name, qtype)
                 ELSE writeNXDOMAIN(name, qtype, zone, wok)
       ELSE IF Len(typeRecords) > 0
            THEN writeAnswer(name, qtype, ConvertAll(typeRecords), wok)
       ELSE IF /\ qtype \in {StringToType("A"), StringToType("AAAA")}
               /\ Len(cnameRecords) > 0
               /\ ToRR(cnameRecords[1]).ok
            THEN writeAnswer(name, qtype,
                             <<ToRR(cnameRecords[1]).rr>>
                             \o chaseCNAME(index, cnameRecords[1].Value, qtype, 1), wok)
       ELSE writeNODATA(name, qtype, zone, wok)

\* ServeDNS on a query for (name, qtype)
ServeDNS(name, qtype, wok) ==
    /\ mu = "free"
    /\ dnsq' = Resolve(records, handler, name, qtype, wok)
    /\ UNCHANGED <<storeVars, lockVars, envVars, callVars, reloadVars, histVars, handler, rcall>>

\* the stores of the resolver: a chain of k aliases n0 -> n1 -> ... -> nk whose
\* last name holds addresses, nothing, a text record only, or an alias back
\* to n0; beside the chain a name with addresses and an alias, a name with a
\* text record, and a host in the zone sub.ex.
ChainEnds == {"addr", "none", "txt", "cycle"}
ChainStore(k, end) ==
    [i \in 1..k |-> Rec(ChainNames[i], "CNAME", ChainNames[i + 1], 300)]
    \o (CASE end = "addr" -> <<Rec(ChainNames[k + 1], "A", "10.0.0.1", 300),
                               Rec(ChainNames[k + 1], "AAAA", "fd00::1", 300),
                               Rec(ChainNames[k + 1], "A", "10.0.0.2", 60)>>
          [] end = "none" -> <<>>
          [] end = "txt" -> <<Rec(ChainNames[k + 1], "TXT", "hello", 300)>>
          [] end = "cycle" -> <<Rec(ChainNames[k + 1], "CNAME", ChainNames[1], 300)>>)
    \o <<Rec("both.ex.", "A", "10.0.0.5", 300),
         Rec("both.ex.", "CNAME", "n0.ex.", 300),
         Rec("both.ex.", "A", "10.0.0.4", 300),
         Rec("txt.ex.", "TXT", "v=spf1", 300),
         Rec("h.sub.ex.", "A", "10.0.1.1", 300)>>

\* the names of the resolver's world, in lower case
ResolverNames ==
    Range(ChainNames) \cup {"both.ex.", "txt.ex.", "none.ex.", "h.sub.ex.", "x.sub.ex.", "out.org."}

\* the index of a store that has loaded the list
ResolverIndex(list) ==
    [k \in ResolverNames |-> SelectSeq(list, LAMBDA r : ToLower(r.Name) = k)]

\* the zone and fallthrough configurations
HandlerConfigs ==
    {[Zones |-> z, Fall |-> f] : z \in {{"ex."}, {"ex.", "sub.ex."}}, f \in {{}, {"sub.ex."}, {"."}}}

\* the queries: names on and beside the chain, in and out of the zones
QueryNames ==
    {"n0.ex.", "N0.EX.", "n1.ex.", "n2.ex.", "both.ex.", "txt.ex.", "none.ex.",
     "h.sub.ex.", "x.sub.ex.", "out.org."}
QueryTypes == {StringToType(t) : t \in {"A", "AAAA", "CNAME", "TXT", "MX"}}

InitResolver ==
    /\ \E k \in 0..MaxChain, end \in ChainEnds :
          /\ file = FileOf(ChainStore(k, end), TRUE, 0)
          /\ records = ResolverIndex(ChainStore(k, end))
    /\ generation = 0
    /\ persisted = 0
    /\ lastMod = 0
    /\ syncPolicy = PolicySync
    /\ maxRecords = 0
    /\ InitIdle
    /\ handler \in HandlerConfigs
    /\ dnsq = NoQuery
    /\ rcall = NoCall

NextResolver ==
    \E name \in QueryNames, qtype \in QueryTypes, wok \in BOOLEAN : ServeDNS(name, qtype, wok)

\* the handler serving queries from a store nobody changes
SpecResolver == InitResolver /\ [][NextResolver]_vars

\* ------------------------------------------------- resolver properties
\* the queried name as the store and the zones see it
QName == ToLower(dnsq.name)

\* the name lies in a configured zone / in the fallthrough set
InZone(qname) == \E z \in handler.Zones : IsSubDomain(z, qname)
InFallthrough(qname) == \E z \in handler.Fall : IsSubDomain(z, qname)

\* the configured zone closest to the name
MatchedZone(qname) ==
    CHOOSE z \in handler.Zones :
        IsSubDomain(z, qname) /\ \A y \in handler.Zones : IsSubDomain(y, qname) => IsSubDomain(y, z)

\* the records stored under a name that have a type
OfType(qname, type) == SelectSeq(records[qname], LAMBDA r : r.Type = type)

\* the one message ServeDNS wrote
Msg == dnsq.written[1]

\* the terminal outcomes
PassThrough == dnsq.next /\ dnsq.written = <<>>
Success == ~dnsq.next /\ Len(dnsq.written) = 1 /\ Msg.Rcode = "NOERROR" /\ Msg.Ns = <<>>
NameError == ~dnsq.next /\ Len(dnsq.written) = 1 /\ Msg.Rcode = "NXDOMAIN"
NoData ==
    /\ ~dnsq.next
    /\ Len(dnsq.written) = 1
    /\ Msg.Rcode = "NOERROR"
    /\ Msg.Answer = <<>>
    /\ Len(Msg.Ns) = 1

\* C22: ServeDNS hands the query to the next handler exactly when the name
\* lies in no configured zone, or lies in one, has no record in the store and
\* lies in the fallthrough set; it then writes nothing itself. In every other
\* case it writes exactly one response: Success, NameError or NoData.
C22_PassThroughIff ==
    dnsq.served =>
        /\ dnsq.next <=>
              \/ ~InZone(QName)
              \/ InZone(QName) /\ Len(records[QName]) = 0 /\ InFallthrough(QName)
        /\ dnsq.next => PassThrough
        /\ ~dnsq.next =>
              /\ Len(dnsq.written) = 1
              /\ Success \/ NameError \/ NoData

\* a name without records in a served zone was passed on because of the
\* fallthrough set
C22_Witness ==
    /\ dnsq.served
    /\ PassThrough
    /\ InZone(QName)
    /\ Len(records[QName]) = 0
    /\ InFallthrough(QName)
    /\ handler.Fall # {"."}

\* C23: a name in a configured zone with no record and outside the
\* fallthrough set gets NameError whatever the query type: rcode NXDOMAIN,
\* no answer, and in the authority section exactly one SOA record whose
\* owner is the matched zone.
C23_NameError ==
    (dnsq.served /\ InZone(QName) /\ Len(records[QName]) = 0 /\ ~InFallthrough(QName)) =>
        /\ NameError
        /\ Msg.Answer = <<>>
        /\ Len(Msg.Ns) = 1
        /\ Msg.Ns[1].Rrtype = StringToType("SOA")
        /\ Msg.Ns[1].Name = MatchedZone(QName)

\* an MX query for a name without records that lies in the zone sub.ex. of
\* a handler serving ex. and sub.ex.
C23_Witness ==
    /\ dnsq.served
    /\ dnsq.qtype = StringToType("MX")
    /\ QName = "x.sub.ex."
    /\ handler.Zones = {"ex.", "sub.ex."}
    /\ NameError
    /\ Msg.Ns[1].Name = "sub.ex."

\* the resource record the answer carries for a stored record
IsRROf(rr, r) ==
    /\ rr.Name = r.Name
    /\ rr.Rrtype = StringToType(r.Type)
    /\ rr.Ttl = r.TTL
    /\ rr.Data = r.Value

\* the answer is the resource records of the given records, in their order
AnswerIs(answer, recs) ==
    /\ Len(answer) = Len(recs)
    /\ \A i \in 1..Len(recs) : IsRROf(answer[i], recs[i])

\* C24: when the name, in a configured zone, holds at least one record of
\* the queried type, the outcome is Success and the answer is exactly the
\* records of that type under the name, all of them, in stored order; no
\* record of another type and no alias target is added, even when a CNAME is
\* stored under the name too.
C24_ExactTypeAnswer ==
    (dnsq.served /\ InZone(QName) /\ Len(OfType(QName, TypeToString(dnsq.qtype))) > 0) =>
        /\ Success
        /\ AnswerIs(Msg.Answer, OfType(QName, TypeToString(dnsq.qtype)))

\* an A query for a name holding an address, a CNAME and a second address,
\* in this order
C24_Witness ==
    /\ dnsq.served
    /\ dnsq.qtype = StringToType("A")
    /\ QName = "both.ex."
    /\ Len(OfType(QName, "CNAME")) = 1
    /\ Success
    /\ Len(Msg.Answer) = 2
    /\ Msg.Answer[1].Data = "10.0.0.5"
    /\ Msg.Answer[2].Data = "10.0.0.4"

\* the first CNAME record stored under a name, and the name it points to
HasType(qname, qtype) == Len(OfType(qname, TypeToString(qtype))) > 0
HasCNAME(qname) == Len(OfType(qname, "CNAME")) > 0
FirstCNAME(qname) == OfType(qname, "CNAME")[1]
Target(qname) == ToLower(FirstCNAME(qname).Value)

RECURSIVE Reaches(_, _, _)
\* following aliases from the name, each from a name that has a CNAME and no
\* record of the type, reaches after exactly k hops a name holding records
\* of the type
Reaches(qname, qtype, k) ==
    IF k = 0 THEN HasType(qname, qtype)
    ELSE ~HasType(qname, qtype) /\ HasCNAME(qname) /\ Reaches(Target(qname), qtype, k - 1)

RECURSIVE ChainRecords(_, _)
\* the CNAME records traversed by the first k hops from the name
ChainRecords(qname, k) ==
    IF k = 0 THEN <<>>
    ELSE <<FirstCNAME(qname)>> \o ChainRecords(Target(qname), k - 1)

RECURSIVE AfterHops(_, _)
\* the name reached after k hops
AfterHops(qname, k) == IF k = 0 THEN qname ELSE AfterHops(Target(qname), k - 1)

AddressTypes == {StringToType("A"), StringToType("AAAA")}

\* C25: an A or AAAA query on a name without a record of the type but with a
\* CNAME, whose aliases reach after k <= 10 hops a name holding records of
\* the type, gets Success with the k CNAME records in chain order followed
\* by the records of the type at the final name. For every other query type
\* no CNAME is followed: the answer holds records of the queried name and
\* type only.
C25_ChaseWithinLimit ==
    (dnsq.served /\ InZone(QName)) =>
        /\ dnsq.qtype \in AddressTypes =>
              \A k \in 1..maxCNAMEHops :
                  Reaches(QName, dnsq.qtype, k) =>
                      /\ Success
                      /\ AnswerIs(Msg.Answer,
                                  ChainRecords(QName, k)
                                  \o OfType(AfterHops(QName, k), TypeToString(dnsq.qtype)))
        /\ (dnsq.qtype \notin AddressTypes /\ ~dnsq.next) =>
              \A i \in 1..Len(Msg.Answer) :
                  /\ ToLower(Msg.Answer[i].Name) = QName
                  /\ Msg.Answer[i].Rrtype = dnsq.qtype

\* an A query answered after exactly 10 hops: ten CNAME records and the
\* two addresses of the final name
C25_Witness ==
    /\ dnsq.served
    /\ dnsq.qtype = StringToType("A")
    /\ InZone(QName)
    /\ Reaches(QName, dnsq.qtype, maxCNAMEHops)
    /\ Success
    /\ Len(Msg.Answer) = maxCNAMEHops + 2
    /\ Msg.Answer[maxCNAMEHops].Rrtype = StringToType("CNAME")
    /\ Msg.Answer[maxCNAMEHops + 1].Rrtype = StringToType("A")

RECURSIVE Endless(_, _, _)
\* n hops can be made from the name, each from a name that has a CNAME and
\* no record of the type
Endless(qname, qtype, n) ==
    IF n = 0 THEN TRUE
    ELSE ~HasType(qname, qtype) /\ HasCNAME(qname) /\ Endless(Target(qname), qtype, n - 1)

\* the alias chain from the name is cyclic: more hops can be made than
\* there are names
Cyclic(qname, qtype) == Endless(qname, qtype, Cardinality(ResolverNames) + 1)

\* C26: an address query whose alias chain is cyclic ends with Success and
\* an answer of the first maxCNAMEHops (10) CNAME records of the chain: at
\* most 10 CNAME records.
C26_CycleAtMostTen ==
    (dnsq.served /\ InZone(QName) /\ dnsq.qtype \in AddressTypes /\ Cyclic(QName, dnsq.qtype)) =>
        /\ Success
        /\ Len(Msg.Answer) <= maxCNAMEHops
        /\ AnswerIs(Msg.Answer, ChainRecords(QName, Len(Msg.Answer)))

\* C26, amended: an address query whose alias chain is cyclic ends with
\* Success and an answer of maxCNAMEHops + 1 CNAME records: the CNAME of the
\* queried name and one CNAME for each of the maxCNAMEHops levels of chaseCNAME.
C26_CycleAnswer ==
    (dnsq.served /\ InZone(QName) /\ dnsq.qtype \in AddressTypes /\ Cyclic(QName, dnsq.qtype)) =>
        /\ Success
        /\ AnswerIs(Msg.Answer, ChainRecords(QName, maxCNAMEHops + 1))

\* an address query on the two-node cycle n0 -> n1 -> n0 has been answered
\* with eleven CNAME records
C26_Witness ==
    /\ dnsq.served
    /\ QName = "n0.ex."
    /\ dnsq.qtype = StringToType("AAAA")
    /\ Cyclic(QName, dnsq.qtype)
    /\ Target(QName) # QName
    /\ Target(Target(QName)) = QName
    /\ Success
    /\ Len(Msg.Answer) = maxCNAMEHops + 1
    /\ \A i \in 1..Len(Msg.Answer) : Msg.Answer[i].Rrtype = StringToType("CNAME")

\* C27: a name in a configured zone that has records, none of the queried
\* type, and for which no alias chase applies (the query type is not A or
\* AAAA, or the name has no CNAME) gets NoData: success rcode, no answer
\* record, and in the authority section exactly one SOA record, that of the
\* matched zone.
C27_NoData ==
    ( /\ dnsq.served
      /\ InZone(QName)
      /\ Len(records[QName]) > 0
      /\ ~HasType(QName, dnsq.qtype)
      /\ dnsq.qtype \notin AddressTypes \/ ~HasCNAME(QName) ) =>
        /\ NoData
        /\ Msg.Ns[1].Rrtype = StringToType("SOA")
        /\ Msg.Ns[1].Name = MatchedZone(QName)

\* a TXT query for a name that holds only a CNAME
C27_Witness ==
    /\ dnsq.served
    /\ dnsq.qtype = StringToType("TXT")
    /\ HasCNAME(QName)
    /\ Len(records[QName]) = 1
    /\ NoData
    /\ Msg.Ns[1].Name = "ex."

RECURSIVE DeadEnd(_, _, _)
\* following aliases from the name, each from a name that has a CNAME and no
\* record of the type, reaches after exactly k hops a name with no records,
\* or with records that are neither of the type nor CNAME
DeadEnd(qname, qtype, k) ==
    IF k = 0 THEN ~HasType(qname, qtype) /\ ~HasCNAME(qname)
    ELSE ~HasType(qname, qtype) /\ HasCNAME(qname) /\ DeadEnd(Target(qname), qtype, k - 1)

\* C28: an address query on a name holding a CNAME whose chain reaches a
\* dead end after k hops gets Success, never NameError, with the CNAME
\* records traversed as the answer: all k of them, or the first
\* maxCNAMEHops + 1 when the chain is longer than that.
C28_DeadEndPartialChain ==
    (dnsq.served /\ InZone(QName) /\ dnsq.qtype \in AddressTypes) =>
        \A k \in 1..(MaxChain + 2) :
            DeadEnd(QName, dnsq.qtype, k) =>
                /\ Success
                /\ ~NameError
                /\ dnsq.ret # "NXDOMAIN"
                /\ AnswerIs(Msg.Answer,
                            ChainRecords(QName, IF k <= maxCNAMEHops + 1 THEN k
                                                ELSE maxCNAMEHops + 1))

\* an A query whose chain of three aliases ends at a name that holds a text
\* record only
C28_Witness ==
    /\ dnsq.served
    /\ dnsq.qtype = StringToType("A")
    /\ InZone(QName)
    /\ DeadEnd(QName, dnsq.qtype, 3)
    /\ Len(records[AfterHops(QName, 3)]) = 1
    /\ Success
    /\ Len(Msg.Answer) = 3

\* ------------------------------------------------------ record validation
DefaultTTL == 3600
MinTTL == 60
MaxTTL == 86400

\* A name given to Validate is the sequence of the byte lengths of the
\* pieces between its dots (strings.Split(name, ".")): "a..b." is
\* <<1, 0, 1, 0>>, "app" is <<3>>, the empty string is <<0>>.
RECURSIVE SumOf(_)
SumOf(segs) == IF segs = <<>> THEN 0 ELSE Head(segs) + SumOf(Tail(segs))

\* len(name)
NameLen(segs) == SumOf(segs) + Len(segs) - 1

\* strings.HasSuffix(name, ".")
HasDotSuffix(segs) == Len(segs) >= 2 /\ segs[Len(segs)] = 0

\* strings.ToUpper on the type strings of the model
ToUpper(s) ==
    CASE s = "a" -> "A" [] s = "cname" -> "CNAME" [] s = "Srv" -> "SRV" [] OTHER -> s

\* A value given to Validate is the class of its text: what net.ParseIP and
\* dns.IsFqdn make of it
ValueClasses == {"ipv4", "ipv4-mapped", "ipv6", "fqdn", "text", "empty"}
\* net.ParseIP(v) != nil, and then ip.To4() != nil
ParsesAsIP(v) == v \in {"ipv4", "ipv4-mapped", "ipv6"}
HasTo4(v) == v \in {"ipv4", "ipv4-mapped"}
\* dns.IsFqdn
IsFqdn(v) == v = "fqdn"

validCAATags == {"issue", "issuewild", "iodef"}

\* validateValue: "" when the value suits the type, the error otherwise
validateValue(r) ==
    CASE r.Type = "A" -> IF ~ParsesAsIP(r.Value) \/ ~HasTo4(r.Value) THEN "not IPv4" ELSE ""
      [] r.Type = "AAAA" -> IF ~ParsesAsIP(r.Value) \/ HasTo4(r.Value) THEN "not IPv6" ELSE ""
      [] r.Type \in {"CNAME", "NS", "PTR", "MX"} -> IF ~IsFqdn(r.Value) THEN "not FQDN" ELSE ""
      [] r.Type = "TXT" -> IF r.Value = "empty" THEN "TXT empty" ELSE ""
      [] r.Type = "SRV" -> IF ~IsFqdn(r.Value) THEN "not FQDN"
                           ELSE IF r.Port = 0 THEN "SRV port" ELSE ""
      [] r.Type = "CAA" -> IF r.Value = "empty" THEN "CAA empty"
                           ELSE IF r.Tag = "" THEN "CAA tag empty"
                           ELSE IF r.Tag \notin validCAATags THEN "CAA tag" ELSE ""
      [] OTHER -> ""

\* the TTL after the default has been put in
DefaultedTTL(ttl) == IF ttl = 0 THEN DefaultTTL ELSE ttl

\* mutant: the minimum itself is refused
TTLOutOfRangeAtMin(ttl) == ttl <= MinTTL \/ ttl > MaxTTL

\* the range test of Validate
TTLOutOfRange(ttl) == ttl < MinTTL \/ ttl > MaxTTL

\* Record.Validate: the error ("" for nil) and the record as the call leaves
\* it (the type is upper-cased and the TTL defaulted before the later checks)
Validate(r) ==
    LET typed == [r EXCEPT !.Type = ToUpper(r.Type)]
        timed == [typed EXCEPT !.TTL = DefaultedTTL(typed.TTL)]
    IN IF r.Name = <<0>> THEN [err |-> "name empty", rec |-> r]
       ELSE IF ~HasDotSuffix(r.Name) THEN [err |-> "trailing dot", rec |-> r]
       ELSE IF typed.Type = "" THEN [err |-> "type empty", rec |-> typed]
       ELSE IF typed.Type \notin supportedTypes THEN [err |-> "unsupported type", rec |-> typed]
       ELSE IF TTLOutOfRange(timed.TTL) THEN [err |-> "TTL out of range", rec |-> timed]
       ELSE [err |-> validateValue(timed), rec |-> timed]

\* names: app.example.org. / without the dot / empty / a..b. / a label of
\* 63 and of 64 bytes / 253 and 254 bytes in labels of at most 63
ValidateNames ==
    {<<3, 7, 3, 0>>, <<3, 7, 3>>, <<0>>, <<1, 0, 1, 0>>, <<63, 3, 0>>, <<64, 3, 0>>,
     <<63, 63, 63, 60, 0>>, <<63, 63, 63, 61, 0>>}

\* TTLs: zero, the values around both ends of the range, a very large one
ValidateTTLs == {0, 1, MinTTL - 1, MinTTL, DefaultTTL, MaxTTL, MaxTTL + 1, 2147483647}

\* the records given to Validate: every name with every TTL, and every type
\* with every value class, port and tag
ValidateInputs ==
    {Record(n, "A", ttl, "ipv4", 0, 0, 0, 0, "") : n \in ValidateNames, ttl \in ValidateTTLs}
    \cup {Record(<<3, 7, 3, 0>>, t, ttl, v, 0, 0, port, 0, tag) :
            t \in {"A", "a", "AAAA", "cname", "TXT", "MX", "Srv", "CAA", "HINFO", ""},
            ttl \in {0, 300}, v \in ValueClasses, port \in {0, 443}, tag \in {"", "issue", "other"}}

\* a transport calls Validate on a record it received
ValidateCall(r) ==
    /\ rcall' = [op |-> "validate", in |-> r, err |-> Validate(r).err, out |-> Validate(r).rec]
    /\ UNCHANGED <<storeVars, lockVars, envVars, callVars, reloadVars, histVars, handler, dnsq>>

NextValidate == \E r \in ValidateInputs : ValidateCall(r)

SpecValidate == Init /\ [][NextValidate]_vars

\* the call was a Validate that returned nil
Accepted == rcall.op = "validate" /\ rcall.err = ""

\* the record would pass with a TTL inside the range
ValidButForTTL(r) == Validate([r EXCEPT !.TTL = DefaultTTL]).err = ""

\* C29: validation of the TTL. A TTL of 0 becomes 3600 and the record is
\* accepted; a TTL in [60, 86400] is accepted as it is; every other TTL makes
\* Validate return an error, and the TTL is left as given, never moved into
\* the range. (Accepted: of a record that is valid in its other fields.)
C29_TTLValidation ==
    rcall.op = "validate" =>
        /\ (rcall.in.TTL = 0 /\ ValidButForTTL(rcall.in)) =>
              rcall.err = "" /\ rcall.out.TTL = 3600
        /\ (rcall.in.TTL >= 60 /\ rcall.in.TTL <= 86400 /\ ValidButForTTL(rcall.in)) =>
              rcall.err = "" /\ rcall.out.TTL = rcall.in.TTL
        /\ (rcall.in.TTL # 0 /\ (rcall.in.TTL < 60 \/ rcall.in.TTL > 86400)) =>
              /\ rcall.err # ""
              /\ rcall.out.TTL = rcall.in.TTL
              /\ ValidButForTTL(rcall.in) => rcall.err = "TTL out of range"

\* a record with TTL 0 has been accepted with TTL 3600
C29_Witness ==
    /\ Accepted
    /\ rcall.in.TTL = 0
    /\ rcall.out.TTL = 3600
    /\ rcall.out.Type = "SRV"

\* the name is well-formed: not empty, ending with a dot, no empty label,
\* no label longer than 63 bytes, no more than 253 bytes in all
WellFormedName(segs) ==
    /\ segs # <<0>>
    /\ HasDotSuffix(segs)
    /\ \A i \in 1..(Len(segs) - 1) : segs[i] > 0 /\ segs[i] <= 63
    /\ NameLen(segs) <= 253

\* C30: validation of the name. Validate accepts a record only if its name
\* is non-empty, ends with a dot, has no empty label, has no label of more
\* than 63 bytes and is at most 253 bytes long.
C30_NameValidation == Accepted => WellFormedName(rcall.in.Name)

\* what Validate does check of the name: it is not empty and ends with a dot
C30_NameChecksInCode == Accepted => (rcall.in.Name # <<0>> /\ HasDotSuffix(rcall.in.Name))

\* ---------------------------------------------------------- authentication
\* Auth as setup builds it: token, allowed common names, and the no_auth
\* flag of the configuration block
AuthConfigs ==
    {[Token |-> t, AllowedCN |-> cns, NoAuth |-> n] :
        t \in {"", "secret"}, cns \in {{}, {"client"}}, n \in BOOLEAN}

\* a request: its Authorization header (scheme prefix and the rest) and the
\* common name of the client certificate, "" without one
AuthRequests ==
    {[prefix |-> h[1], rest |-> h[2], cn |-> cn] :
        h \in {<<"", "">>, <<"Bearer ", "secret">>, <<"Bearer ", "wrong">>, <<"Basic ", "secret">>},
        cn \in {"", "client", "other"}}

authRequired(a) == a.Token # "" \/ a.AllowedCN # {}

\* extractBearerHTTP / extractBearerGRPC: the header without its "Bearer "
\* prefix, "" when it has another form
extractBearer(req) == IF req.prefix = "Bearer " THEN req.rest ELSE ""

cnAllowed(a, cn) == cn \in a.AllowedCN

\* the decision HTTPMiddleware and UnaryInterceptor share: TRUE when the
\* wrapped handler is called
Admits(a, req) ==
    IF ~authRequired(a) THEN TRUE
    ELSE IF a.Token # "" /\ extractBearer(req) # "" THEN extractBearer(req) = a.Token
    ELSE IF a.AllowedCN # {} /\ req.cn # "" /\ cnAllowed(a, req.cn) THEN TRUE
    ELSE FALSE

\* Auth.HTTPMiddleware on one request: the handler is called, or 401 is written
HTTPMiddleware(a, req) ==
    /\ rcall' = [op |-> "http", auth |-> a, req |-> req, handled |-> Admits(a, req),
                 status |-> IF Admits(a, req) THEN "handler" ELSE "401"]
    /\ UNCHANGED <<storeVars, lockVars, envVars, callVars, reloadVars, histVars, handler, dnsq>>

\* Auth.UnaryInterceptor on one call: the handler is called, or the call
\* fails with codes.Unauthenticated
UnaryInterceptor(a, req) ==
    /\ rcall' = [op |-> "grpc", auth |-> a, req |-> req, handled |-> Admits(a, req),
                 status |-> IF Admits(a, req) THEN "handler" ELSE "Unauthenticated"]
    /\ UNCHANGED <<storeVars, lockVars, envVars, callVars, reloadVars, histVars, handler, dnsq>>

NextAuth ==
    \/ \E a \in AuthConfigs, req \in AuthRequests : HTTPMiddleware(a, req)
    \/ \E a \in AuthConfigs, req \in AuthRequests : UnaryInterceptor(a, req)

SpecAuth == Init /\ [][NextAuth]_vars

\* the request carries a credential the configuration accepts
ValidCredential(a, req) ==
    \/ a.Token # "" /\ req.prefix = "Bearer " /\ req.rest = a.Token
    \/ req.cn # "" /\ req.cn \in a.AllowedCN

\* C31: authentication is fail-closed. With no token, no allowed common
\* name and no explicit NoAuth, every HTTP request gets 401, every gRPC call
\* fails with Unauthenticated and the wrapped handler is not called; a request
\* without valid credentials reaches the handler only when NoAuth is set.
C31_FailClosed ==
    rcall.op \in {"http", "grpc"} =>
        /\ (rcall.auth.Token = "" /\ rcall.auth.AllowedCN = {} /\ ~rcall.auth.NoAuth) =>
              /\ ~rcall.handled
              /\ rcall.status = (IF rcall.op = "http" THEN "401" ELSE "Unauthenticated")
        /\ (rcall.handled /\ ~ValidCredential(rcall.auth, rcall.req)) => rcall.auth.NoAuth

\* what the code does: the handler is called without valid credentials
\* exactly when neither a token nor a common name is configured
C31_OpenWhenUnconfigured ==
    rcall.op \in {"http", "grpc"} =>
        ((rcall.handled /\ ~ValidCredential(rcall.auth, rcall.req)) <=>
            (rcall.auth.Token = "" /\ rcall.auth.AllowedCN = {}))

\* ---------------------------------------------------------------------------
\* the REST API (api.go): the mutating handlers and the status they write
\* ---------------------------------------------------------------------------

\* the routes of handler() that change the store
RestRoutes == {"POST records", "PUT records", "DELETE name", "DELETE name/type"}

\* requests: a body that does not decode or validate, the records of the
\* model, names with and without records, a type in lower case
RestRequests ==
    {[route |-> rt, bad |-> b, rec |-> r, name |-> r.Name, type |-> "none"] :
        rt \in {"POST records", "PUT records"}, b \in BOOLEAN, r \in CallRecords}
    \cup {[route |-> "DELETE name", bad |-> (n = ""), rec |-> r1, name |-> n, type |-> "none"] :
        n \in {"", "A.EX.", "b.ex."}}
    \cup {[route |-> "DELETE name/type", bad |-> FALSE, rec |-> r1, name |-> n, type |-> t] :
        n \in {"a.ex.", "b.ex."}, t \in {"a", "TXT"}}

\* the values of a sequence of records, in order
ValuesOf(recs) == [i \in 1..Len(recs) |-> recs[i].Value]

\* the status a handler writes once its store calls have returned err: any
\* error is an internal server error
statusOf(route, err) ==
    IF err \notin {"nil", "none"} THEN 500
    ELSE CASE route = "POST records" -> 201
           [] route = "PUT records" -> 200
           [] OTHER -> 204

\* no request is being handled
RestIdle == IF rcall.op = "rest" THEN rcall.phase = "answered" ELSE TRUE

\* caller p is inside the handler of the request in rcall
Handling(p) ==
    IF rcall.op = "rest" THEN rcall.phase = "calling" /\ rcall.p = p ELSE FALSE

\* a handler is entered: the body is decoded and validated (400 on failure),
\* the path values are read, and handleDeleteByType reads the records of the
\* name and type with store.Get
RestReceive(p, req) ==
    /\ RestIdle
    /\ mpc[p] = "idle"
    /\ req.route = "DELETE name/type" => mu = "free"
    /\ rcall' = [op |-> "rest", p |-> p, req |-> req,
                 phase |-> IF req.bad THEN "answered" ELSE "calling",
                 todo |-> IF req.route = "DELETE name/type"
                          THEN ValuesOf(Get(records, req.name, ToUpper(req.type)))
                          ELSE <<>>,
                 err |-> "none",
                 status |-> IF req.bad THEN 400 ELSE 0]
    /\ mret' = [mret EXCEPT ![p] = "none"]
    /\ UNCHANGED <<storeVars, lockVars, envVars, reloadVars, histVars, handler, dnsq>>
    /\ UNCHANGED <<mpc, msnap, mgen, mtmp, mrec>>

\* a.store.Upsert(rec) of handleCreate
handleCreate(p) ==
    /\ Handling(p) /\ rcall.req.route = "POST records" /\ mret[p] = "none"
    /\ Upsert(p, rcall.req.rec)

\* a.store.Upsert(rec) of handleUpdate
handleUpdate(p) ==
    /\ Handling(p) /\ rcall.req.route = "PUT records" /\ mret[p] = "none"
    /\ Upsert(p, rcall.req.rec)

\* a.store.DeleteAll(name) of handleDeleteAll
handleDeleteAll(p) ==
    /\ Handling(p) /\ rcall.req.route = "DELETE name" /\ mret[p] = "none"
    /\ DeleteAll(p, rcall.req.name)

\* a.store.Delete(name, qtype, rec.Value) of handleDeleteByType's loop
handleDeleteByType(p) ==
    /\ Handling(p) /\ rcall.req.route = "DELETE name/type" /\ mret[p] = "none"
    /\ rcall.todo # <<>>
    /\ Delete(p, rcall.req.name, ToUpper(rcall.req.type), Head(rcall.todo))

\* handleDeleteByType's loop goes on to the next record after a Delete
\* that returned nil
RestNextRecord(p) ==
    /\ Handling(p) /\ rcall.req.route = "DELETE name/type"
    /\ mpc[p] = "idle" /\ mret[p] = "nil"
    /\ Len(rcall.todo) > 1
    /\ rcall' = [rcall EXCEPT !.todo = Tail(rcall.todo)]
    /\ mret' = [mret EXCEPT ![p] = "none"]
    /\ UNCHANGED <<storeVars, lockVars, envVars, reloadVars, histVars, handler, dnsq>>
    /\ UNCHANGED <<mpc, msnap, mgen, mtmp, mrec>>

\* the store calls of the handler have returned
RestReturned(p) ==
    /\ mpc[p] = "idle"
    /\ \/ mret[p] \notin {"none", "pending", "nil"}
       \/ mret[p] = "nil" /\ Len(rcall.todo) <= 1
       \/ mret[p] = "none" /\ rcall.req.route = "DELETE name/type" /\ rcall.todo = <<>>

\* writeJSON / WriteHeader: the handler answers
RestRespond(p) ==
    /\ Handling(p)
    /\ RestReturned(p)
    /\ rcall' = [rcall EXCEPT !.phase = "answered", !.err = mret[p],
                              !.status = statusOf(rcall.req.route, mret[p])]
    /\ UNCHANGED <<storeVars, lockVars, envVars, callVars, reloadVars, histVars, handler, dnsq>>

NextRest ==
    \/ \E p \in Procs, req \in RestRequests : RestReceive(p, req)
    \/ \E p \in Procs : handleCreate(p)
    \/ \E p \in Procs : handleUpdate(p)
    \/ \E p \in Procs : handleDeleteAll(p)
    \/ \E p \in Procs : handleDeleteByType(p)
    \/ \E p \in Procs : RestNextRecord(p)
    \/ \E p \in Procs : RestRespond(p)
    \/ \E p \in Procs : Persist(p)

InitRest == InitStoreFrom(CallFiles, CallPolicies, {0})

SpecRest == InitRest /\ [][NextRest]_vars

\* C32: a REST mutation that the sync policy denies is answered with
\* status 403 (and leaves the store unchanged)
C32_Denied403 ==
    (rcall.op = "rest" /\ rcall.phase = "answered" /\ rcall.err = "ErrPolicyDenied")
        => rcall.status = 403

\* what the handlers do with a denial: the store is as it was when the
\* request came in only by the store's own refusal; the status is 500
C32_DeniedIs500 ==
    (rcall.op = "rest" /\ rcall.phase = "answered" /\ rcall.err = "ErrPolicyDenied")
        => rcall.status = 500

\* ---------------------------------------------------------------------------
\* Stop and the auto-reload goroutine (store.go: Stop, run)
\* ---------------------------------------------------------------------------

\* stopCh has been closed
Stopped == rcall.op = "stop"

\* run() has returned
Returned == IF Stopped THEN rcall.returned ELSE FALSE

\* mutant: the loop of run() goes on selecting after it has returned
RunningForever(stopped, returned) == TRUE

\* the goroutine is in the loop of run()
Running(stopped, returned) == ~(stopped /\ returned)

\* Stop: the select on stopCh and, when it is still open, close(stopCh).
\* The calls are counted (up to two) to tell a repeated call from the first.
Stop ==
    /\ rcall' = IF Stopped
                THEN [rcall EXCEPT !.calls = 2]
                ELSE [op |-> "stop", returned |-> FALSE, calls |-> 1]
    /\ UNCHANGED <<storeVars, lockVars, envVars, callVars, reloadVars, histVars, handler, dnsq>>

\* run(): the select takes the ticker case and calls checkReload
RunTick ==
    /\ Running(Stopped, Returned)
    /\ ReloadTick

\* run(): the select takes the stopCh case and the goroutine returns (the
\* goroutine is at the select when it is not inside checkReload)
RunStop ==
    /\ Stopped
    /\ ~rcall.returned
    /\ rpc = "idle"
    /\ rcall' = [rcall EXCEPT !.returned = TRUE]
    /\ UNCHANGED <<storeVars, lockVars, envVars, callVars, reloadVars, histVars, handler, dnsq>>

\* the steps of a checkReload call that has begun
ReloadSteps ==
    \/ ReloadPhase1
    \/ ReloadStat
    \/ ReloadRead
    \/ ReloadSwap
    \/ ReloadLoadStat
    \/ ReloadLogError

NextStop ==
    \/ \E p \in Procs : Mutate(p)
    \/ \E p \in Procs : Persist(p)
    \/ RunTick
    \/ ReloadSteps
    \/ Env
    \/ Stop
    \/ RunStop

SpecStop == Init /\ [][NextStop]_vars

\* a goroutine inside persistSnapshot or checkReload keeps running; a select
\* with several ready cases picks one at random, so the stopCh case, ready
\* at every select once the channel is closed, is taken in the end
FairStop ==
    /\ SpecStop
    /\ WF_vars(ReloadSteps)
    /\ \A p \in Procs : WF_vars(Persist(p))
    /\ SF_vars(RunStop)

\* C33: once Stop has been called the reload goroutine returns in the end,
\* and after it has returned no checkReload runs; a further Stop changes
\* nothing (but the count of calls); Stop writes neither the index, nor the
\* counters, nor the backing file
C33_StopTerminatesRun ==
    /\ Stopped ~> Returned
    /\ [](Returned => rpc = "idle")
    /\ [][(Stop /\ Stopped) => rcall'.returned = rcall.returned]_vars
    /\ [][Stop => UNCHANGED <<storeVars, lockVars, file, callVars, reloadVars>>]_vars

\* the goroutine has returned after a tick that came when the channel was
\* already closed, and Stop has been called again
C33_Witness == Returned /\ rcall.calls = 2 /\ generation > 0

\* ---------------------------------------------------------------------------
\* locks and file operations
\* ---------------------------------------------------------------------------

\* caller p writes the temporary file, renames it over the backing file, or
\* removes it after a failure
WritesFile(p) == PersistWrite(p) \/ PersistRename(p) \/ PersistFail(p)

\* C34: no step that reads, writes, renames or stats the backing file is
\* taken by a task that holds mu
C34_NoFileOpUnderIndexLock ==
    [][/\ \A p \in Procs : (WritesFile(p) \/ PersistStat(p)) => mu # p
       /\ (ReloadStat \/ ReloadRead \/ ReloadLoadStat) => mu # "reload"]_vars

\* C34, amended: no step that reads, writes or renames the backing file is
\* taken by a task that holds mu; os.Stat is the one file operation made
\* under mu, after the rename of a persist and after the swap of a reload
C34_NoReadWriteRenameUnderIndexLock ==
    [][/\ \A p \in Procs : WritesFile(p) => mu # p
       /\ \A p \in Procs : PersistStat(p) => mu = p
       /\ (ReloadStat \/ ReloadRead) => mu # "reload"
       /\ ReloadLoadStat => mu = "reload"]_vars

\* a persist has renamed its file and holds mu for the stat while
\* checkReload has read the file and waits for mu
C34_Witness ==
    /\ \E p \in Procs : mpc[p] = "metastat" /\ mu = p
    /\ rpc = "phase3"
    /\ writtenGen > 0

\* caller p is in the write phase of persistSnapshot: past the stale check,
\* before the rename has been made
InWritePhase(p) == mpc[p] \in {"write", "rename"}

\* a reader (Get, GetAll, List) can take mu.RLock()
ReadersEnabled == mu = "free"

\* C35: a task in the write phase of a persist holds persistMu and not mu,
\* and nobody else holds mu either: Get, GetAll and List are enabled, and
\* what they read is the index as it is now, not the snapshot being written
C35_ReadsDuringWritePhase ==
    \A p \in Procs :
        InWritePhase(p) =>
            /\ persistMu = p
            /\ mu # p
            /\ ReadersEnabled
            /\ generation > persisted

\* a snapshot is being written while the index already holds a later
\* mutation, which List returns and the snapshot lacks
C35_Witness ==
    \E p \in Procs :
        /\ InWritePhase(p)
        /\ generation > mgen[p]
        /\ List(records) # msnap[p]
        /\ rpc = "phase3"

\* ---------------------------------------------------------------------------
\* a query running beside mutations: ServeDNS and chaseCNAME read by read
\* ---------------------------------------------------------------------------

\* an alias from a.ex. to b.ex., one back, and a second address of b.ex.
qa == Rec("a.ex.", "CNAME", "b.ex.", 300)
qb == Rec("b.ex.", "CNAME", "a.ex.", 300)
qc == Rec("b.ex.", "A", "10.0.0.2", 300)

\* the stores a query starts on: an alias to a name with an address, a
\* cycle of two aliases, addresses only
QueryFiles == {<<qa, r4>>, <<qa, qb>>, <<r1, r4>>}

\* ServeDNS goes on to chaseCNAME: the name lies in a zone and has records,
\* none of the query type, the query is for an address and the first alias
\* of the name converts
ChaseStarts(index, h, name, qtype) ==
    LET qname == ToLower(name)
        allRecords == GetAll(index, qname)
        cnameRecords == filterByType(allRecords, StringToType("CNAME"))
    IN /\ Matches(h.Zones, qname) # ""
       /\ Len(allRecords) > 0
       /\ Len(filterByType(allRecords, qtype)) = 0
       /\ qtype \in {StringToType("A"), StringToType("AAAA")}
       /\ Len(cnameRecords) > 0
       /\ ToRR(cnameRecords[1]).ok

\* a query is between two reads of the store
QueryRunning == rcall.op = "query"

\* the first Store.GetAll of ServeDNS, under its own RLock. A query that
\* does not go on to chaseCNAME is answered from this one read; otherwise
\* the first alias is kept and the chase starts at depth 1. views is the set
\* of indices that existed while the query ran, reads what GetAll returned.
QueryBegin(name, qtype, wok) ==
    LET qname == ToLower(name)
        allRecords == GetAll(records, qname)
        cnameRecords == filterByType(allRecords, StringToType("CNAME"))
        chase == ChaseStarts(records, handler, name, qtype)
    IN /\ ~QueryRunning
       /\ mu = "free"
       /\ rcall' = [op |-> IF chase THEN "query" ELSE "answered",
                    name |-> name, qtype |-> qtype, wok |-> wok,
                    first |-> IF chase THEN <<ToRR(cnameRecords[1]).rr>> ELSE <<>>,
                    target |-> IF chase THEN cnameRecords[1].Value ELSE "",
                    depth |-> 1,
                    chain |-> <<>>,
                    views |-> {records},
                    reads |-> <<[name |-> qname, recs |-> allRecords]>>]
       /\ dnsq' = IF chase THEN NoQuery ELSE Resolve(records, handler, name, qtype, wok)
       /\ UNCHANGED <<storeVars, lockVars, envVars, callVars, reloadVars, histVars, handler>>

\* one level of chaseCNAME: past the hop limit it returns at once, otherwise
\* it reads the target with Store.GetAll under its own RLock and ends the
\* chain with the records of the query type, follows the first alias, or
\* ends the chain with nothing; when the chain has ended ServeDNS writes the
\* answer
QueryChase ==
    LET q == rcall
        allRecords == GetAll(records, q.target)
        typeRecords == filterByType(allRecords, q.qtype)
        cnameRecords == filterByType(allRecords, StringToType("CNAME"))
        follows == /\ q.depth <= maxCNAMEHops
                   /\ Len(allRecords) > 0
                   /\ Len(typeRecords) = 0
                   /\ Len(cnameRecords) > 0
                   /\ ToRR(cnameRecords[1]).ok
        chain == IF q.depth > maxCNAMEHops \/ Len(allRecords) = 0 THEN q.chain
                 ELSE IF Len(typeRecords) > 0 THEN q.chain \o ConvertAll(typeRecords)
                 ELSE IF follows THEN Append(q.chain, ToRR(cnameRecords[1]).rr)
                 ELSE q.chain
        read == q.depth <= maxCNAMEHops
    IN /\ QueryRunning
       /\ read => mu = "free"
       /\ rcall' = [q EXCEPT !.op = IF follows THEN "query" ELSE "answered",
                             !.target = IF follows THEN cnameRecords[1].Value ELSE q.target,
                             !.depth = IF follows THEN q.depth + 1 ELSE q.depth,
                             !.chain = chain,
                             !.views = IF read THEN q.views \cup {records} ELSE q.views,
                             !.reads = IF read
                                       THEN Append(q.reads, [name |-> ToLower(q.target), recs |-> allRecords])
                                       ELSE q.reads]
       /\ dnsq' = IF follows THEN dnsq
                  ELSE writeAnswer(q.name, q.qtype, q.first \o chain, q.wok)
       /\ UNCHANGED <<storeVars, lockVars, envVars, callVars, reloadVars, histVars, handler>>

\* the index as it is now is among those noted for the running query
Seen == IF QueryRunning THEN records \in rcall.views ELSE TRUE

\* bookkeeping of the model, not of the program: the index that exists now
\* is noted before a mutation replaces it
QueryObserve ==
    /\ ~Seen
    /\ rcall' = [rcall EXCEPT !.views = @ \cup {records}]
    /\ UNCHANGED <<storeVars, lockVars, envVars, callVars, reloadVars, histVars, handler, dnsq>>

\* the mutations that run beside the query
MutateQuery(p) ==
    \/ \E r \in {r1, qc, qb} : Upsert(p, r)
    \/ Delete(p, "a.ex.", "CNAME", "b.ex.")
    \/ DeleteAll(p, "b.ex.")

NextQuery ==
    \/ \E name \in {"a.ex.", "B.EX."}, qtype \in {StringToType("A"), StringToType("CNAME")},
          wok \in BOOLEAN : QueryBegin(name, qtype, wok)
    \/ QueryChase
    \/ QueryObserve
    \/ \E p \in Procs : Seen /\ MutateQuery(p)
    \/ \E p \in Procs : Persist(p)

InitQuery ==
    /\ \E list \in QueryFiles :
          /\ file = FileOf(list, TRUE, 0)
          /\ records = GroupByName(list)
    /\ generation = 0
    /\ persisted = 0
    /\ lastMod = 0
    /\ syncPolicy = PolicySync
    /\ maxRecords = 0
    /\ InitIdle
    /\ handler = [Zones |-> {"ex."}, Fall |-> {}]
    /\ dnsq = NoQuery
    /\ rcall = NoCall

SpecQuery == InitQuery /\ [][NextQuery]_vars

\* the query in rcall has been answered
Answered == rcall.op = "answered"

\* what GetAll returned to the query, read for read, is what index s holds
ReadsAgreeWith(s) ==
    \A i \in 1..Len(rcall.reads) : rcall.reads[i].recs = GetAll(s, rcall.reads[i].name)

C37_DeadlockFree ==
    /\ [](\A p \in Procs : mpc[p] = "persist" => mu # p)
    /\ [](\A p \in Procs : mu = p => mpc[p] = "metastat" /\ persistMu = p)
    /\ [](mu = "reload" => rpc \in {"loadstat", "logerr"})
    /\ \A p \in Procs : (mpc[p] # "idle") ~> (mpc[p] = "idle")
    /\ (rpc # "idle") ~> (rpc = "idle")
    /\ (mu # "free") ~> (mu = "free")

\* one caller waits for persistMu while the other holds both locks and
\* checkReload waits for mu
C37_Witness ==
    /\ \E p, q \in Procs : mpc[p] = "persist" /\ mpc[q] = "metastat" /\ mu = q /\ persistMu = q
    /\ rpc = "phase3"

\* the mutating call of p returns nil in this step
ReturnsNil(p) == mpc[p] # "idle" /\ mpc'[p] = "idle" /\ mret'[p] = "nil"

\* C38: when a mutating call returns nil, after its own write or after its
\* attempt was skipped as stale, persisted is at least the generation of the
\* call; and when nobody else has touched the file, the file is a snapshot
\* of that generation or a later one: it parses, it holds the record of an
\* Upsert (when nothing was deleted), and it is the index itself when no
\* later mutation has been applied
C38_DurableOnSuccess ==
    [][\A p \in Procs :
          ReturnsNil(p) =>
              /\ persisted' >= mgen[p]
              /\ extEdits' = 0 =>
                    /\ file'.exists /\ file'.ok
                    /\ writtenGen' >= mgen[p]
                    /\ writtenGen' = generation' => GroupByName(file'.recs) = records'
                    /\ (~deleted' /\ mrec[p] # <<>>) =>
                           mrec[p] \in Identities(GroupByName(file'.recs))]_vars

\* a call has returned nil from a skipped attempt: the other caller wrote
\* the later snapshot, and nobody else has touched the file
C38_Witness ==
    /\ skipped
    /\ extEdits = 0
    /\ \E p \in Procs : mpc[p] = "idle" /\ mret[p] = "nil"
    /\ writtenGen = 2
    /\ persisted = 2

\* a persist attempt has failed and no later generation has been persisted
PendingFailure == \E f \in failed : persisted < f[1]

\* C39: the generation of a failed persist attempt is never what persisted
\* holds, and until a later mutation has persisted generation stays above
\* persisted; in that period no step of checkReload changes the index,
\* whatever the backing file holds, and no step of checkReload ever changes
\* persisted or generation
C39_FailedPersistBlocksReload ==
    /\ [](\A f \in failed : persisted # f[1])
    /\ [](PendingFailure => generation > persisted)
    /\ [][(PendingFailure /\ Reload) => records' = records]_vars
    /\ [][Reload => UNCHANGED <<persisted, generation>>]_vars
    /\ [][(PendingFailure /\ ~PendingFailure') =>
             \E p \in Procs : PersistMeta(p) /\ \A f \in failed : mgen[p] > f[1]]_vars

\* a persist has failed, the file has been replaced from outside with a
\* newer modification time, and checkReload, which read it, is at phase 3
C39_Witness ==
    /\ PendingFailure
    /\ extEdits > 0
    /\ file.exists /\ file.ok /\ file.mtime > lastMod
    /\ rpc = "phase3" /\ rInfo > lastMod

\* C40: the modification time recorded in lastMod is that of the content the
\* index was last brought in line with: the stat that ends a persist
\* records the time of the snapshot the call renamed into place, and the
\* stat that ends a reload finds the file whose bytes were loaded
C40_LastModOfSyncedContent ==
    [][/\ \A p \in Procs :
             PersistStat(p) => (lastMod' = mtmp[p] /\ file.exists /\ file.recs = msnap[p])
       /\ ReloadLoadStat =>
             (file.exists /\ file.recs = rRaw.recs /\ file.ok = rRaw.ok /\ lastMod' = file.mtime)]_vars
====
